---- MODULE Spec2Model ----
(***************************************************************************)
(* dynamiq: the queue message engine (Queue.Get / Put / Delete and         *)
(* RetrieveMessages with read-repair), the partition lease manager it      *)
(* calls, and the Queues / Topics registry reconciliation.                 *)
(***************************************************************************)
EXTENDS Integers, Sequences, FiniteSets, Bags, TLC

----------------------------------------------------------------------------
\* Bounds of the model.

\* Largest message id of the (scaled down) id space [0, MaxID].
MaxID == 3
\* Largest partition count a queue's settings may ask for.
MaxPartitions == 2
\* Largest batch size a consumer asks for.
MaxBatch == 2
\* Producers stop once sent.count has reached this.
MaxPuts == 2
\* Injected store / codec failures per behaviour.
MaxFaults == 1
\* Largest number of cluster members.
MaxMembers == 3
\* Largest batch size recordFillRatio is called with.
MaxFillBatch == 50
\* Longest seed list.
MaxSeeds == 3

Callers == {"c1", "c2"}

\* A message body is a sequence of tokens; <<>> is the empty body.
Messages == {<<>>, <<"a">>, <<"b">>}

\* rand.Int(rand.Reader, &MaxIDSize) draws from [0, MaxIDSize).
GenIds == 0 .. (MaxID - 1)
Keys == 0 .. MaxID
NoId == -1

VARIABLES
    \* the "messages" bucket of the queue: key -> the values stored under it
    \* (<<>>: no object, one value: a plain object, several: siblings)
    store,
    \* queue settings snapshot (Queue.Config): compression, min/max partitions
    compress, minP, maxP,
    \* partition lease manager
    partCount, pool, ranges, resizing, target,
    \* one Get call per caller
    pc, hold, ids, pending, chan, cnt, vals, qerr, ret, rel, leased, repairs,
    \* stats counters (sent.count, depth.count, deleted.count)
    sent, depth, deleted,
    \* injected failures so far; whether the process has panicked
    faults, crashed,
    \* the producer's inputs of the end-to-end run: the message it Puts and
    \* the id rand.Int draws for it
    script,
    \* the configuration bucket of the shared store: the queue set, the topic
    \* set, every topic's linked-queue set, every queue's settings
    sQueues, sTopics, sLinks, sSettings,
    \* the registries of this node: Queues.QueueMap, Queues.Config (its queue
    \* set), Topics.TopicMap
    QueueMap, queuesConfig, TopicMap,
    \* Queues.syncConfig: position, the queue being torn down, the topics its
    \* cascade has still to visit
    qpc, qcur, qtodo,
    \* Topics.syncConfig: position, topicSlice
    tpc, topicSlice,
    \* queue names the reconciliation loop discarded and has not materialized
    \* again since
    discarded,
    \* the last BatchDelete call: whether it could open the bucket (o), the
    \* number of ids it was given, what it returned and how many keys it
    \* removed; flip changes with every call
    batchRet,
    \* the arguments of setQueueDepthApr (ids, partition count, members) and of
    \* recordFillRatio; the approximate-depth and fill gauges
    sample, fillInput, gauge,
    \* InitMemberList: this node's address (myName), the seed list and the
    \* join order prioritizeSeedServers returned for it
    myName, seedServers, prioritizedServers,
    \* the map the last Topic.Broadcast returned; what that call did: the
    \* linked set it iterated, the Put calls per queue, the queues whose
    \* bucket received the message
    queueWrites, fanout,
    \* Queues.syncKiller ("open", "signalled": a stop is waiting to be
    \* received, "received") and Queues.syncScheduler, the ticker
    syncKiller, syncScheduler,
    \* the goroutines that touch a Config field: the next operation of each,
    \* and the RWMutex of every entity that has one
    goPos, rwLock,
    \* one RetrieveMessages call with its goroutines: the id list, the spawn
    \* loop (ids handed out so far, position in the loop body), the two
    \* buffered channels, what each fetch goroutine is doing, and the objects
    \* the collector has received
    fanIds, fanLoop, rKeys, rObjectArrayChan, fetchTask, received

engineVars == <<store, compress, minP, maxP, partCount, pool, ranges, resizing, target,
                pc, hold, ids, pending, chan, cnt, vals, qerr, ret, rel, leased,
                repairs, sent, depth, deleted, faults, crashed, script>>

partVars == <<partCount, pool, ranges, resizing, target>>
getVars == <<pc, hold, ids, pending, chan, cnt, vals, qerr, ret, rel, leased, repairs>>
statVars == <<sent, depth, deleted>>
\* the state outside the message engine and the registries
gaugeVars == <<sample, fillInput, gauge>>
seedVars == <<myName, seedServers, prioritizedServers>>
topicVars == <<queueWrites, fanout>>
stopVars == <<syncKiller, syncScheduler>>
lockVars == <<goPos, rwLock>>
fanVars == <<fanIds, fanLoop, rKeys, rObjectArrayChan, fetchTask, received>>
restVars == <<seedVars, topicVars, stopVars, lockVars, fanVars>>
auxVars == <<batchRet, gaugeVars, restVars>>
queueVars == <<store, compress, minP, maxP, partVars, getVars, statVars, script, auxVars>>
storeVars == <<sQueues, sTopics, sLinks, sSettings>>
regVars == <<storeVars, QueueMap, queuesConfig, TopicMap, qpc, qcur, qtodo, tpc, topicSlice,
             discarded>>

----------------------------------------------------------------------------
\* Compressor (external codec): Compress wraps the body, Decompress unwraps a
\* wrapped body and fails (nil data) on anything else.

Compress(d) == <<"z">> \o d

Decompress(d) == IF Len(d) > 0 /\ d[1] = "z" THEN Tail(d) ELSE <<>>

----------------------------------------------------------------------------
\* Partition lease manager.

Width == MaxID + 1

RangeLowOffByOne(i, n) == IF i = 0 THEN 0 ELSE (i * Width) \div n - 1

RangeLow(i, n) == (i * Width) \div n

RangeHigh(i, n) == ((i + 1) * Width) \div n - 1

Rows == 0 .. (MaxPartitions - 1)

\* The range table rebuilt for n partitions; rows n.. keep what they held.
Rebuild(tab, n) ==
    [i \in Rows |-> IF i < n THEN <<RangeLow(i, n), RangeHigh(i, n)>> ELSE tab[i]]

NoPart == [id |-> NoId, lo |-> 0, hi |-> -1]

Held == {hold[c].id : c \in {x \in Callers : hold[x] # NoPart}}

\* The pool is a bag: the order in which it gives partitions out is a policy.
PoolIds(p) == {e.id : e \in BagToSet(p)}

One(e) == SetToBag({e})

RECURSIVE SeqOfSet(_)
SeqOfSet(S) ==
    IF S = {} THEN <<>>
    ELSE LET x == CHOOSE y \in S : \A z \in S : y <= z
         IN <<x>> \o SeqOfSet(S \ {x})

\* A pool that is one partition short of n.
InitPoolShort(n) == SetToBag({[id |-> i, hot |-> FALSE] : i \in 0 .. (n - 2)})

\* InitPartitions: a pool of n partitions 0 .. n-1, none checked out.
InitPool(n) == SetToBag({[id |-> i, hot |-> FALSE] : i \in 0 .. (n - 1)})

\* PushPartition(partition, lock): the partition goes back into the pool.
PushPartition(p, part, lock) ==
    IF part.id < partCount THEN p (+) One([id |-> part.id, hot |-> lock]) ELSE p

----------------------------------------------------------------------------
\* Storage adapter, as the engine uses it.

\* bucket.Get(key): a plain object carries its data; an object in conflict
\* carries its siblings and no data; a missing key gives an empty object
\* together with the "Object not found" error.
FetchObject(st, k) ==
    [key |-> k,
     data |-> IF Len(st[k]) = 1 THEN st[k][1] ELSE <<>>,
     conflict |-> Len(st[k]) > 1,
     sibs |-> IF Len(st[k]) > 1 THEN st[k] ELSE <<>>]

\* bucket.IndexQueryRangePage("id_int", lo, hi, max): the keys in [lo, hi]
\* in index order, at most max of them.
RangeQuery(st, lo, hi, max) ==
    LET all == SeqOfSet({k \in Keys : lo <= k /\ k <= hi /\ st[k] # <<>>})
    IN SubSeq(all, 1, IF Len(all) < max THEN Len(all) ELSE max)

----------------------------------------------------------------------------
\* Queue.Put.  o is what happened inside the call: "ok", "bucketErr"
\* (NewBucketType failed), "compressErr" (Compressor.Compress failed),
\* "storeErr" (messageObj.Store failed).

PutOutcomes == {"ok", "bucketErr", "compressErr", "storeErr"}

PutBody(m, o) == IF compress /\ o # "compressErr" THEN Compress(m) ELSE m

PutStored(o) == o \notin {"bucketErr", "storeErr"}

PutStore(st, m, id, o) ==
    IF PutStored(o) THEN [st EXCEPT ![id] = Append(@, PutBody(m, o))] ELSE st

\* the id Put returns: "" only when the bucket could not be opened
PutRet(id, o) == IF o = "bucketErr" THEN NoId ELSE id

\* the deferred incrementMessageCount(.., 1)
PutCount(o) == IF o = "bucketErr" THEN 0 ELSE 1

FaultCost(o) == IF o = "ok" THEN 0 ELSE 1

Put(m, id, o) ==
    /\ ~crashed
    /\ UNCHANGED <<script, regVars, auxVars>>
    /\ sent < MaxPuts
    /\ faults + FaultCost(o) <= MaxFaults
    /\ o = "compressErr" => compress
    /\ store' = PutStore(store, m, id, o)
    /\ sent' = sent + PutCount(o)
    /\ depth' = depth + PutCount(o)
    /\ faults' = faults + FaultCost(o)
    /\ UNCHANGED <<compress, minP, maxP, partVars, getVars, deleted, crashed>>

\* A delete that fails on a key that exists, or a bucket that cannot be
\* opened, is an injected failure; a delete of a missing key fails by itself.
DeleteCost(id, o) ==
    IF o = "bucketErr" \/ (o = "deleteErr" /\ store[id] # <<>>) THEN 1 ELSE 0

\* Queue.Delete.  o: "ok", "bucketErr", "deleteErr" (bucket.Delete failed;
\* a missing key is such a failure).
Delete(id, o) ==
    /\ ~crashed
    /\ UNCHANGED <<script, regVars, auxVars>>
    /\ o \in {"ok", "bucketErr", "deleteErr"}
    /\ o = "ok" => store[id] # <<>>
    /\ faults + DeleteCost(id, o) <= MaxFaults
    /\ store' = IF o = "ok" THEN [store EXCEPT ![id] = <<>>] ELSE store
    /\ deleted' = IF o = "ok" THEN deleted + 1 ELSE deleted
    /\ depth' = IF o = "ok" THEN depth - 1 ELSE depth
    /\ faults' = faults + DeleteCost(id, o)
    /\ UNCHANGED <<compress, minP, maxP, partVars, getVars, sent, crashed>>

NoBatchRet == [flip |-> FALSE, o |-> "ok", n |-> 0, errors |-> 0, err |-> FALSE, removed |-> 0]

\* Queue.Delete returns true exactly when bucket.Delete returned no error.
DeleteRet(o) == o = "ok"

\* The id lists a caller hands to BatchDelete.
IdLists == UNION {[1 .. n -> Keys] : n \in 0 .. MaxBatch}

\* The loop of BatchDelete (lines 279-285) from position i on: every id is
\* deleted in turn, a failure is counted and the loop goes on; err is the
\* error of the last bucket.Delete.  The deletes at the positions in bad fail.
RECURSIVE DeleteEach(_, _, _, _, _)
DeleteEach(st, idList, bad, i, acc) ==
    IF i > Len(idList) THEN [st |-> st, errors |-> acc.errors, err |-> acc.err]
    ELSE LET id == idList[i]
             failed == i \in bad \/ st[id] = <<>>
             next == IF failed THEN st ELSE [st EXCEPT ![id] = <<>>]
             errors == IF failed THEN acc.errors + 1 ELSE acc.errors
         IN DeleteEach(next, idList, bad, i + 1, [errors |-> errors, err |-> failed])

BatchDeleteCountsAll(st, idList, bad, o) ==
    LET all == DeleteEach(st, idList, bad, 1, [errors |-> 0, err |-> FALSE])
    IN IF o = "bucketErr" THEN [st |-> st, errors |-> 0, err |-> TRUE, counted |-> 0]
       ELSE [st |-> all.st, errors |-> all.errors, err |-> all.err, counted |-> Len(idList)]

\* What BatchDelete leaves and returns: the bucket, the failure count, the
\* error, and the argument of the deferred decrementMessageCount.
BatchDeleteResult(st, idList, bad, o) ==
    LET all == DeleteEach(st, idList, bad, 1, [errors |-> 0, err |-> FALSE])
    IN IF o = "bucketErr" THEN [st |-> st, errors |-> 0, err |-> TRUE, counted |-> 0]
       ELSE [st |-> all.st, errors |-> all.errors, err |-> all.err,
             counted |-> Len(idList) - all.errors]

\* Queue.BatchDelete.  o: "ok", "bucketErr".
BatchDelete(idList, bad, o) ==
    /\ ~crashed
    /\ UNCHANGED <<script, regVars, gaugeVars, restVars>>
    /\ o \in {"ok", "bucketErr"}
    /\ bad \subseteq {i \in 1 .. Len(idList) : store[idList[i]] # <<>>}
    /\ o = "bucketErr" => bad = {}
    /\ faults + Cardinality(bad) + FaultCost(o) <= MaxFaults
    /\ LET r == BatchDeleteResult(store, idList, bad, o)
       IN /\ store' = r.st
          /\ deleted' = deleted + r.counted
          /\ depth' = depth - r.counted
          /\ batchRet' = [flip |-> ~batchRet.flip, o |-> o, n |-> Len(idList),
                          errors |-> r.errors, err |-> r.err,
                          removed |-> Cardinality({k \in Keys : store[k] # <<>> /\ r.st[k] = <<>>})]
    /\ faults' = faults + Cardinality(bad) + FaultCost(o)
    /\ UNCHANGED <<compress, minP, maxP, partVars, getVars, sent, crashed>>

----------------------------------------------------------------------------
\* Queue.Get, one call per caller, in the steps other goroutines can
\* interleave with.

NoRet == [msgs |-> <<>>, err |-> FALSE, count |-> 0]

\* GetPartition: any pooled partition may be handed out (the reuse order is a
\* policy of the pool); its bounds are copied from the range table.
LeaseOf(e) == [id |-> e.id, lo |-> ranges[e.id][1], hi |-> ranges[e.id][2]]

\* GetPartition fails when no partition is available: the pool is empty, or
\* all that is left is locked by a productive release.
LeaseFails == \A e \in BagToSet(pool) : e.hot

\* NewBucketType and GetPartition (lines 183-194).
\* (batchsize is first used by the range query: GetQuery takes it.)
GetBegin(c, o) ==
    /\ ~crashed
    /\ UNCHANGED <<script, regVars, auxVars>>
    /\ pc[c] = "idle"
    /\ o \in {"ok", "bucketErr"}
    /\ faults + FaultCost(o) <= MaxFaults
    /\ faults' = faults + FaultCost(o)
    /\ \/ /\ o = "bucketErr" \/ LeaseFails
          /\ pc' = [pc EXCEPT ![c] = "done"]
          /\ ret' = [ret EXCEPT ![c] = [msgs |-> <<>>, err |-> TRUE, count |-> 0]]
          /\ UNCHANGED <<hold, pool, leased>>
       \/ /\ o = "ok"
          /\ \E e \in BagToSet(pool) :
                /\ hold' = [hold EXCEPT ![c] = LeaseOf(e)]
                /\ leased' = [leased EXCEPT ![c] = LeaseOf(e)]
                /\ pool' = pool (-) One(e)
          /\ pc' = [pc EXCEPT ![c] = "query"]
          /\ UNCHANGED ret
    /\ UNCHANGED <<store, compress, minP, maxP, partCount, ranges, resizing, target,
                   ids, pending, chan, cnt, vals, qerr, rel, repairs,
                   statVars, crashed>>

\* The same lines in the two steps other goroutines can come between.
\* NewBucketType (lines 183-187):
GetOpen(c, o) ==
    /\ ~crashed
    /\ UNCHANGED <<script, regVars, auxVars>>
    /\ pc[c] = "idle"
    /\ o \in {"ok", "bucketErr"}
    /\ faults + FaultCost(o) <= MaxFaults
    /\ faults' = faults + FaultCost(o)
    /\ IF o = "bucketErr"
       THEN /\ pc' = [pc EXCEPT ![c] = "done"]
            /\ ret' = [ret EXCEPT ![c] = [msgs |-> <<>>, err |-> TRUE, count |-> 0]]
       ELSE /\ pc' = [pc EXCEPT ![c] = "lease"]
            /\ UNCHANGED ret
    /\ UNCHANGED <<store, compress, minP, maxP, partVars, hold, ids, pending, chan, cnt, vals,
                   qerr, rel, leased, repairs, statVars, crashed>>

\* GetPartition hands out a partition (line 190):
GetLease(c) ==
    /\ ~crashed
    /\ UNCHANGED <<script, regVars, auxVars>>
    /\ pc[c] = "lease"
    /\ \E e \in BagToSet(pool) :
          /\ hold' = [hold EXCEPT ![c] = LeaseOf(e)]
          /\ leased' = [leased EXCEPT ![c] = LeaseOf(e)]
          /\ pool' = pool (-) One(e)
    /\ pc' = [pc EXCEPT ![c] = "query"]
    /\ UNCHANGED <<store, compress, minP, maxP, partCount, ranges, resizing, target,
                   ids, pending, chan, cnt, vals, qerr, ret, rel, repairs,
                   statVars, faults, crashed>>

GetErrDropped == NoRet

\* return nil, err (lines 192-194)
GetErr == [msgs |-> <<>>, err |-> TRUE, count |-> 0]

\* GetPartition has no partition to hand out and, its wait over, returns an
\* error; Get returns it (lines 192-194).
LeaseTimeout(c) ==
    /\ ~crashed
    /\ UNCHANGED <<script, regVars, auxVars>>
    /\ pc[c] = "lease"
    /\ LeaseFails
    /\ pc' = [pc EXCEPT ![c] = "done"]
    /\ ret' = [ret EXCEPT ![c] = GetErr]
    /\ UNCHANGED <<store, compress, minP, maxP, partVars, hold, ids, pending, chan, cnt, vals,
                   qerr, rel, leased, repairs, statVars, faults, crashed>>

\* IndexQueryRangePage over the leased range (line 196); its error is only
\* logged (lines 199-201).
GetQuery(c, n, o) ==
    /\ ~crashed
    /\ UNCHANGED <<script, regVars, auxVars>>
    /\ pc[c] = "query"
    /\ o \in {"ok", "queryErr"}
    /\ faults + FaultCost(o) <= MaxFaults
    /\ faults' = faults + FaultCost(o)
    /\ ids' = [ids EXCEPT ![c] =
                 IF o = "ok" THEN RangeQuery(store, hold[c].lo, hold[c].hi, n)
                 ELSE <<>>]
    /\ qerr' = [qerr EXCEPT ![c] = (o = "queryErr")]
    /\ pending' = [pending EXCEPT ![c] = 1 .. Len(ids'[c])]
    /\ pc' = [pc EXCEPT ![c] = "fetch"]
    /\ UNCHANGED <<store, compress, minP, maxP, partVars, hold, chan, cnt, vals,
                   ret, rel, leased, repairs, statVars, crashed>>

FetchedRaw(k) == FetchObject(store, k)

\* What one fetch goroutine sends on rObjectArrayChan (lines 313-326).
Fetched(k) ==
    LET obj == FetchObject(store, k)
    IN IF compress THEN [obj EXCEPT !.data = Decompress(obj.data)] ELSE obj

\* One fetch goroutine of RetrieveMessages (lines 307-327).  "fetchErr" is
\* bucket.Get failing with no object returned: the goroutine dereferences
\* the nil object and the process panics.
GetFetch(c, i, o) ==
    /\ ~crashed
    /\ UNCHANGED <<script, regVars, auxVars>>
    /\ pc[c] = "fetch"
    /\ i \in pending[c]
    /\ o \in {"ok", "fetchErr"}
    /\ faults + FaultCost(o) <= MaxFaults
    /\ faults' = faults + FaultCost(o)
    /\ pending' = [pending EXCEPT ![c] = @ \ {i}]
    /\ IF o = "ok"
       THEN /\ chan' = [chan EXCEPT ![c] = Append(@, Fetched(ids[c][i]))]
            /\ UNCHANGED crashed
       ELSE /\ crashed' = TRUE
            /\ UNCHANGED chan
    /\ UNCHANGED <<store, compress, minP, maxP, partVars, pc, hold, ids, cnt, vals,
                   qerr, ret, rel, leased, repairs, statVars>>

\* Read-repair (lines 345-358): one Put per sibling with data, then Destroy.
\* ch[i] is the id rand.Int drew for sibling i and what happened in that Put.
RepairChoices(sibs) ==
    {ch \in [1 .. Len(sibs) -> [id : GenIds, o : PutOutcomes]] :
        \A i \in 1 .. Len(sibs) :
            /\ sibs[i] = <<>> => ch[i] = [id |-> 0, o |-> "ok"]
            /\ ch[i].o = "compressErr" => compress}

WithData(sibs) == {i \in 1 .. Len(sibs) : sibs[i] # <<>>}

RECURSIVE RepairStore(_, _, _, _)
RepairStore(st, sibs, ch, i) ==
    IF i > Len(sibs) THEN st
    ELSE RepairStore(IF sibs[i] # <<>> THEN PutStore(st, sibs[i], ch[i].id, ch[i].o) ELSE st,
                     sibs, ch, i + 1)

RepairCost(ch, d) == Cardinality({i \in DOMAIN ch : ch[i].o # "ok"}) + FaultCost(d)

RepairCount(sibs, ch) == Cardinality({i \in WithData(sibs) : PutCount(ch[i].o) = 1})

\* rObject.Destroy(): the key is deleted unless the delete fails.
Destroy(st, k, d) == IF d = "ok" THEN [st EXCEPT ![k] = <<>>] ELSE st

\* What the read-repair of one object did, for the record.
RepairRecord(obj, ch, after) ==
    [key |-> obj.key,
     n |-> Cardinality(WithData(obj.sibs)),
     \* the ids the re-Puts returned
     newIds |-> {PutRet(ch[i].id, ch[i].o) : i \in WithData(obj.sibs)} \ {NoId},
     \* re-Puts whose object was written
     nstored |-> Cardinality({i \in WithData(obj.sibs) : PutStored(ch[i].o)}),
     \* re-Puts that drew an id no object was stored under
     nfresh |-> Cardinality({i \in WithData(obj.sibs) : store[ch[i].id] = <<>>}),
     gone |-> after[obj.key] = <<>>]

\* One iteration of the collector loop of RetrieveMessages (lines 334-359).
GetCollect(c) ==
    /\ ~crashed
    /\ UNCHANGED <<script, regVars, auxVars>>
    /\ pc[c] = "fetch"
    /\ chan[c] # <<>>
    /\ LET obj == Head(chan[c])
       IN /\ chan' = [chan EXCEPT ![c] = Tail(@)]
          /\ cnt' = [cnt EXCEPT ![c] = @ + 1]
          /\ vals' = [vals EXCEPT ![c] =
                        IF Len(obj.data) > 0
                        THEN Append(@, [key |-> obj.key, data |-> obj.data])
                        ELSE @]
          /\ IF obj.conflict
             THEN \E ch \in RepairChoices(obj.sibs), d \in {"ok", "destroyErr"} :
                    /\ faults + RepairCost(ch, d) <= MaxFaults
                    /\ faults' = faults + RepairCost(ch, d)
                    /\ store' = Destroy(RepairStore(store, obj.sibs, ch, 1), obj.key, d)
                    /\ sent' = sent + RepairCount(obj.sibs, ch)
                    /\ depth' = depth + RepairCount(obj.sibs, ch)
                    /\ repairs' = [repairs EXCEPT ![c] =
                                     Append(@, RepairRecord(obj, ch, store'))]
             ELSE UNCHANGED <<faults, store, sent, depth, repairs>>
    /\ UNCHANGED <<compress, minP, maxP, partVars, pc, hold, ids, pending, qerr,
                   ret, rel, leased, deleted, crashed>>

\* The deferred PushPartition of Get (lines 203-210): the leased partition,
\* locked only when the range query gave ids.
DeferredPushTwice(c) ==
    <<[part |-> hold[c], lock |-> TRUE], [part |-> hold[c], lock |-> FALSE]>>

DeferredPushLocked(c) == <<[part |-> hold[c], lock |-> TRUE]>>

DeferredPush(c) == <<[part |-> hold[c], lock |-> Len(ids[c]) > 0]>>

RECURSIVE PushAll(_, _)
PushAll(p, pushes) ==
    IF pushes = <<>> THEN p
    ELSE PushAll(PushPartition(p, Head(pushes).part, Head(pushes).lock), Tail(pushes))

\* Get returns (line 214) and its deferred calls run.
GetReturn(c) ==
    /\ ~crashed
    /\ UNCHANGED <<script, regVars, auxVars>>
    /\ pc[c] = "fetch"
    /\ cnt[c] = Len(ids[c])
    /\ pool' = PushAll(pool, DeferredPush(c))
    /\ rel' = [rel EXCEPT ![c] = @ \o [j \in 1 .. Len(DeferredPush(c)) |->
                 [id |-> DeferredPush(c)[j].part.id, lock |-> DeferredPush(c)[j].lock]]]
    /\ hold' = [hold EXCEPT ![c] = NoPart]
    /\ ret' = [ret EXCEPT ![c] = [msgs |-> vals[c], err |-> qerr[c], count |-> Len(ids[c])]]
    /\ pc' = [pc EXCEPT ![c] = "done"]
    /\ UNCHANGED <<store, compress, minP, maxP, partCount, ranges, resizing, target,
                   ids, pending, chan, cnt, vals, qerr, leased, repairs,
                   statVars, faults, crashed>>

\* The caller is ready for its next Get.
GetReset(c) ==
    /\ ~crashed
    /\ UNCHANGED <<script, regVars, auxVars>>
    /\ pc[c] = "done"
    /\ pc' = [pc EXCEPT ![c] = "idle"]
    /\ ids' = [ids EXCEPT ![c] = <<>>]
    /\ cnt' = [cnt EXCEPT ![c] = 0]
    /\ vals' = [vals EXCEPT ![c] = <<>>]
    /\ qerr' = [qerr EXCEPT ![c] = FALSE]
    /\ ret' = [ret EXCEPT ![c] = NoRet]
    /\ rel' = [rel EXCEPT ![c] = <<>>]
    /\ leased' = [leased EXCEPT ![c] = NoPart]
    /\ repairs' = [repairs EXCEPT ![c] = <<>>]
    /\ UNCHANGED <<store, compress, minP, maxP, partVars, hold, pending, chan,
                   statVars, faults, crashed>>

----------------------------------------------------------------------------
\* Queue.syncConfig (lines 485-493): the settings snapshot is swapped for the
\* fetched one and the partitions are resynced against it.

\* syncPartitions, first half: the range table is rebuilt for n partitions.
QueueSyncConfig(z, lo, hi, n) ==
    /\ ~crashed
    /\ UNCHANGED <<script, regVars, auxVars>>
    /\ ~resizing
    /\ lo <= hi
    /\ n \in lo .. hi
    /\ <<z, lo, hi, n>> # <<compress, minP, maxP, partCount>>
    /\ compress' = z
    /\ minP' = lo
    /\ maxP' = hi
    /\ resizing' = TRUE
    /\ target' = n
    /\ ranges' = Rebuild(ranges, n)
    /\ UNCHANGED <<store, partCount, pool, getVars, statVars, faults, crashed>>

\* The pool after a resize to n: partitions n.. are dropped, the new ones
\* that nobody holds are added.
Resized(p, n) ==
    LET kept == [e \in {x \in BagToSet(p) : x.id < n} |-> p[e]]
        new == {i \in 0 .. (n - 1) : i \notin PoolIds(kept) /\ i \notin Held}
    IN kept (+) SetToBag({[id |-> i, hot |-> FALSE] : i \in new})

\* syncPartitions, second half: the count and the pool follow the table.
ResyncEnd ==
    /\ ~crashed
    /\ UNCHANGED <<script, regVars, auxVars>>
    /\ resizing
    /\ partCount' = target
    /\ pool' = Resized(pool, target)
    /\ resizing' = FALSE
    /\ UNCHANGED <<store, compress, minP, maxP, ranges, target, getVars, statVars, faults, crashed>>

----------------------------------------------------------------------------
\* Gauges: setQueueDepthApr and recordFillRatio.  float64 has a mantissa of
\* 53 bits; int64 is the range IntMin .. IntMax of the scaled id space.

RECURSIVE Pow2(_)
Pow2(k) == IF k = 0 THEN 1 ELSE 2 * Pow2(k - 1)

\* A float64 > 0 is [m, e]: m the mantissa, a leading 1 followed by Limbs
\* digits of LimbBits bits each (52 bits), e the exponent of the leading 1.
\* Zero is [m |-> <<>>, e |-> 0].
Limbs == 4
LimbBits == 13
Base == Pow2(LimbBits)
FloatZero == [m |-> <<>>, e |-> 0]

\* the exponent e with den * 2^e <= num < den * 2^(e+1)
RECURSIVE LeadExp(_, _, _)
LeadExp(num, den, e) ==
    LET n == IF e < 0 THEN num * Pow2(0 - e) ELSE num
        d == IF e < 0 THEN den ELSE den * Pow2(e)
    IN IF n >= 2 * d THEN LeadExp(num, den, e + 1)
       ELSE IF n < d THEN LeadExp(num, den, e - 1)
       ELSE e

\* k more digits of the quotient r / den (r < den), and the remainder left
RECURSIVE DivDigits(_, _, _, _)
DivDigits(digits, r, den, k) ==
    IF k = 0 THEN [digits |-> digits, r |-> r]
    ELSE DivDigits(Append(digits, (r * Base) \div den), (r * Base) % den, den, k - 1)

\* digits + 1, of the same length; all ones wrap to all zeros
RECURSIVE Inc(_)
Inc(digits) ==
    IF digits = <<>> THEN <<>>
    ELSE LET front == SubSeq(digits, 1, Len(digits) - 1)
             last == digits[Len(digits)]
         IN IF last < Base - 1 THEN Append(front, last + 1) ELSE Append(Inc(front), 0)

\* Round to nearest: the mantissa 1.digits goes up by one unit when up holds.
RoundUp(digits, e, up) ==
    IF ~up THEN [m |-> digits, e |-> e]
    ELSE IF \A i \in 1 .. Limbs : digits[i] = Base - 1
         THEN [m |-> [i \in 1 .. Limbs |-> 0], e |-> e + 1]
         ELSE [m |-> Inc(digits), e |-> e]

\* float64(num) / float64(den) for integers num >= 0, den > 0 that a float64
\* holds exactly; ties go to the even mantissa
FloatDiv(num, den) ==
    IF num = 0 THEN FloatZero
    ELSE LET e == LeadExp(num, den, 0)
             n == IF e < 0 THEN num * Pow2(0 - e) ELSE num
             d == IF e < 0 THEN den ELSE den * Pow2(e)
             q == DivDigits(<<>>, n - d, d, Limbs)
             up == 2 * q.r > d \/ (2 * q.r = d /\ q.digits[Limbs] % 2 = 1)
         IN RoundUp(q.digits, e, up)

\* (1.digits[1 .. i]) * k + carry: the digits of the product and, first, its
\* integer part
RECURSIVE TimesDigits(_, _, _, _)
TimesDigits(digits, i, k, carry) ==
    IF i = 0 THEN <<k + carry>>
    ELSE LET t == digits[i] * k + carry
         IN Append(TimesDigits(digits, i - 1, k, t \div Base), t % Base)

\* the number of bits of the integer c > 0, less one
RECURSIVE TopBit(_)
TopBit(c) == IF c = 1 THEN 0 ELSE 1 + TopBit(c \div 2)

\* f * float64(k) for an integer 0 < k < Base: the exact product is shifted
\* right by the s bits its integer part has too many and rounded to nearest,
\* ties to even
FloatTimes(f, k) ==
    IF f = FloatZero THEN FloatZero
    ELSE LET p == TimesDigits(f.m, Limbs, k, 0)
             s == TopBit(p[1])
             high(i) == IF i = 1 THEN p[1] % Pow2(s) ELSE p[i] % Pow2(s)
             kept == [i \in 1 .. Limbs |->
                         high(i) * Pow2(LimbBits - s) + p[i + 1] \div Pow2(s)]
             dropped == p[Limbs + 1] % Pow2(s)
             up == \/ 2 * dropped > Pow2(s)
                   \/ 2 * dropped = Pow2(s) /\ kept[Limbs] % 2 = 1
         IN RoundUp(kept, f.e + s, up)

\* a float >= 0 below 2^k
FloatBelow(f, k) == f = FloatZero \/ f.e < k

\* math.Floor, and the integer part int64() keeps, of a float >= 0 below
\* 2^LimbBits
FloatFloor(f) ==
    IF f = FloatZero \/ f.e < 0 THEN 0
    ELSE Pow2(f.e) + f.m[1] \div Pow2(LimbBits - f.e)

IntMax == MaxID
IntMin == 0 - (MaxID + 1)

\* int64(f): the integer part when int64 can represent it; otherwise the
\* result is implementation-dependent (the smallest int64 on amd64, the
\* largest on arm64).
ToInt64(f) ==
    IF FloatBelow(f, LimbBits) /\ FloatFloor(f) <= IntMax THEN {FloatFloor(f)} ELSE {IntMin, IntMax}

\* the sorted lists of distinct ids a range query returns
SortedIds ==
    {s \in UNION {[1 .. n -> Keys] : n \in 0 .. MaxBatch} :
        \A i \in 1 .. Len(s) - 1 : s[i] < s[i + 1]}

Samples == [ids : SortedIds, parts : 1 .. MaxPartitions, members : 1 .. MaxMembers]
FillInputs ==
    {in \in [batchSize : 1 .. MaxFillBatch, messageCount : 0 .. MaxFillBatch] :
        in.messageCount <= in.batchSize}

Unset == <<>>

\* setQueueDepthApr: the values the gauge may be set to
DepthApr(idList, partitionCount, members) ==
    IF Len(idList) > 1
    THEN LET first == idList[1]
             last == idList[Len(idList)]
             difference == last - first
             density == FloatDiv(Len(idList), difference)
             count == FloatTimes(density, IntMax)
         IN ToInt64(count)
    ELSE {Len(idList) * (partitionCount * members)}

SetQueueDepthApr(v) ==
    /\ gauge.depthApr = Unset
    /\ v \in DepthApr(sample.ids, sample.parts, sample.members)
    /\ gauge' = [gauge EXCEPT !.depthApr = <<v>>]
    /\ UNCHANGED <<engineVars, regVars, batchRet, sample, fillInput, restVars>>

\* recordFillRatio: int64(math.Floor((float64(messageCount) / float64(batchSize)) * 100))
FillRate(batchSize, messageCount) ==
    FloatFloor(FloatTimes(FloatDiv(messageCount, batchSize), 100))

RecordFillRatio ==
    /\ gauge.fill = Unset
    /\ gauge' = [gauge EXCEPT !.fill = <<FillRate(fillInput.batchSize, fillInput.messageCount)>>]
    /\ UNCHANGED <<engineVars, regVars, batchRet, sample, fillInput, restVars>>

NoSample == [ids |-> <<>>, parts |-> 1, members |-> 1]
NoFillInput == [batchSize |-> 1, messageCount |-> 0]
NoGauges ==
    /\ sample = NoSample
    /\ fillInput = NoFillInput
    /\ gauge = [depthApr |-> Unset, fill |-> Unset]

----------------------------------------------------------------------------
\* Cluster membership: the order in which InitMemberList joins the seeds.

Addrs == {"a", "b", "c"}

\* the byte order of the addresses, which sort.Strings sorts by
Rank(addr) == CASE addr = "a" -> 1 [] addr = "b" -> 2 [] addr = "c" -> 3

SeedLists == UNION {[1 .. n -> Addrs] : n \in 0 .. MaxSeeds}

RECURSIVE Insert(_, _)
Insert(elem, sorted) ==
    IF sorted = <<>> THEN <<elem>>
    ELSE IF Rank(elem) <= Rank(Head(sorted)) THEN <<elem>> \o sorted
    ELSE <<Head(sorted)>> \o Insert(elem, Tail(sorted))

RECURSIVE SortStrings(_)
SortStrings(list) ==
    IF list = <<>> THEN <<>> ELSE Insert(Head(list), SortStrings(Tail(list)))

\* myPos := 0; for i, elem := range seedServers { if elem == name { myPos = i } }
\* (positions counted from 0, as in the code)
MyPos(addr, sorted) ==
    LET hits == {i \in 1 .. Len(sorted) : sorted[i] = addr}
    IN IF hits = {} THEN 0 ELSE (CHOOSE i \in hits : \A j \in hits : j <= i) - 1

Fatal == [fatal |-> TRUE, servers |-> <<>>]

\* prioritizeSeedServers: what it returns (or that logrus.Fatal ended the
\* process) and what it leaves in the caller's slice, which sort.Strings
\* sorts in place.
PrioritizeSeedServers(addr, list) ==
    IF Len(list) = 0 THEN [ret |-> Fatal, list |-> list]
    ELSE IF Len(list) = 1
    THEN IF list[1] = addr THEN [ret |-> Fatal, list |-> list]
         ELSE [ret |-> [fatal |-> FALSE, servers |-> list], list |-> list]
    ELSE LET sorted == SortStrings(list)
             myPos == MyPos(addr, sorted)
             preSlice == SubSeq(sorted, 1, myPos)
             postSlice == SubSeq(sorted, myPos + 2, Len(sorted))
         IN [ret |-> [fatal |-> FALSE, servers |-> postSlice \o preSlice], list |-> sorted]

\* InitMemberList up to list.Join
InitMemberList ==
    /\ prioritizedServers = Unset
    /\ LET r == PrioritizeSeedServers(myName, seedServers)
       IN /\ prioritizedServers' = <<r.ret>>
          /\ seedServers' = r.list
    /\ UNCHANGED <<engineVars, regVars, batchRet, gaugeVars, myName, topicVars, stopVars,
                   lockVars, fanVars>>

NoSeeds ==
    /\ myName = "a"
    /\ seedServers = <<>>
    /\ prioritizedServers = Unset

NoFanout == [called |-> FALSE, linked |-> {}, puts |-> [q \in {} |-> 0], stored |-> {}]

NoBroadcast ==
    /\ queueWrites = Unset
    /\ fanout = NoFanout

\* scheduleSync has created the ticker; no stop has been sent
NoStop ==
    /\ syncKiller = "open"
    /\ syncScheduler = "ticking"

----------------------------------------------------------------------------
\* Access to the Config fields: which goroutine reads or writes the Config
\* of which entity, and what it locks around the access.

Entities == {"queue", "queues", "topic"}

Goroutines == {"Queue.syncConfig", "Queues.syncConfig", "Queue.getConfig",
               "Topic.Broadcast", "Topic.AddQueue", "Topic.DeleteQueue"}

\* The goroutines that touch Queues.QueueMap: the reconciliation cycle and
\* the Broadcast calls of two requests served at the same time.
MapGoroutines == {"Queues.syncConfig cycle", "Topic.Broadcast 1", "Topic.Broadcast 2"}

Op(kind, on) == [kind |-> kind, on |-> on]

\* The operations of each goroutine on a Config field, in program order,
\* after the call that starts it.
Program(g) ==
    CASE g = "Queue.syncConfig" ->
             \* updateConfig, called at line 491
             <<Op("call", "queue"), Op("Lock", "queue"), Op("write", "queue"),
               Op("Unlock", "queue")>>
      [] g = "Queues.syncConfig" ->
             \* updateConfig at line 393, getConfig at line 396
             <<Op("call", "queues"), Op("Lock", "queues"), Op("write", "queues"),
               Op("Unlock", "queues"), Op("RLock", "queues"), Op("read", "queues"),
               Op("RUnlock", "queues")>>
      [] g = "Queue.getConfig" ->
             <<Op("call", "queue"), Op("RLock", "queue"), Op("read", "queue"),
               Op("RUnlock", "queue")>>
      [] g = "Topic.Broadcast" ->
             \* line 79
             <<Op("call", "topic"), Op("read", "topic")>>
      [] g = "Topic.AddQueue" ->
             \* lines 97, 99, 102
             <<Op("call", "topic"), Op("write", "topic"), Op("read", "topic"),
               Op("write", "topic")>>
      [] g = "Topic.DeleteQueue" ->
             \* lines 113, 115, 117
             <<Op("call", "topic"), Op("write", "topic"), Op("read", "topic"),
               Op("write", "topic")>>
      [] g = "Queues.syncConfig cycle" ->
             \* updateConfig at line 393, getConfig at line 396; then, for a
             \* queue to add and a queue to remove: the lookup at line 414,
             \* the insertion of initQueueFromRiak at line 482, the range at
             \* line 424, the delete at line 436, the range at line 442
             <<Op("call", "queues"), Op("Lock", "queues"), Op("write", "queues"),
               Op("Unlock", "queues"), Op("RLock", "queues"), Op("read", "queues"),
               Op("RUnlock", "queues"),
               Op("mapRead", "QueueMap"), Op("mapWrite", "QueueMap"),
               Op("mapRead", "QueueMap"), Op("mapWrite", "QueueMap"),
               Op("mapRead", "QueueMap")>>
      [] g \in {"Topic.Broadcast 1", "Topic.Broadcast 2"} ->
             \* for a linked queue that is registered: line 79, the lookups
             \* at lines 82 and 85
             <<Op("call", "topic"), Op("read", "topic"),
               Op("mapRead", "QueueMap"), Op("mapRead", "QueueMap")>>

Done == Op("done", "-")

NextOp(g) == IF goPos[g] <= Len(Program(g)) THEN Program(g)[goPos[g]] ELSE Done

NoHolder == "-"
Unlocked == [writer |-> NoHolder, readers |-> {}]

Advance(g) == goPos' = [goPos EXCEPT ![g] = @ + 1]

LockFrame ==
    UNCHANGED <<engineVars, regVars, batchRet, gaugeVars, seedVars, topicVars, stopVars, fanVars>>

\* the handler or the sync cycle starts
Call(g) ==
    /\ NextOp(g).kind = "call"
    /\ Advance(g)
    /\ UNCHANGED rwLock
    /\ LockFrame

\* sync.RWMutex
Lock(g) ==
    /\ NextOp(g).kind = "Lock"
    /\ rwLock[NextOp(g).on] = Unlocked
    /\ rwLock' = [rwLock EXCEPT ![NextOp(g).on].writer = g]
    /\ Advance(g)
    /\ LockFrame

Unlock(g) ==
    /\ NextOp(g).kind = "Unlock"
    /\ rwLock' = [rwLock EXCEPT ![NextOp(g).on].writer = NoHolder]
    /\ Advance(g)
    /\ LockFrame

RLock(g) ==
    /\ NextOp(g).kind = "RLock"
    /\ rwLock[NextOp(g).on].writer = NoHolder
    /\ rwLock' = [rwLock EXCEPT ![NextOp(g).on].readers = @ \cup {g}]
    /\ Advance(g)
    /\ LockFrame

RUnlock(g) ==
    /\ NextOp(g).kind = "RUnlock"
    /\ rwLock' = [rwLock EXCEPT ![NextOp(g).on].readers = @ \ {g}]
    /\ Advance(g)
    /\ LockFrame

\* a read of the Config field
ReadConfig(g) ==
    /\ NextOp(g).kind = "read"
    /\ Advance(g)
    /\ UNCHANGED rwLock
    /\ LockFrame

\* an assignment to the Config field
WriteConfig(g) ==
    /\ NextOp(g).kind = "write"
    /\ Advance(g)
    /\ UNCHANGED rwLock
    /\ LockFrame

\* a lookup in QueueMap or a range over it
ReadMap(g) ==
    /\ NextOp(g).kind = "mapRead"
    /\ Advance(g)
    /\ UNCHANGED rwLock
    /\ LockFrame

\* an insertion into QueueMap or a delete from it
WriteMap(g) ==
    /\ NextOp(g).kind = "mapWrite"
    /\ Advance(g)
    /\ UNCHANGED rwLock
    /\ LockFrame

NoLocks ==
    /\ goPos = [g \in Goroutines |-> 1]
    /\ rwLock = [e \in Entities |-> Unlocked]

----------------------------------------------------------------------------
\* RetrieveMessages (lines 297-340), goroutine by goroutine: the loop that
\* starts one fetch goroutine per id and pushes the id into rKeys, the fetch
\* goroutines, and the collector loop that receives from rObjectArrayChan.
\* (What the collector does with a received object is GetCollect.)

\* The ids of a range query: distinct keys in index order, at most a batch.
FanIdLists == {SeqOfSet(S) : S \in {T \in SUBSET Keys : Cardinality(T) <= MaxBatch}}

FetchTasks == 1 .. MaxBatch

\* make(chan riak.RObject, len(ids)), make(chan string, len(ids))
ChanCap == Len(fanIds)

NoFan ==
    /\ fanIds = <<>>
    /\ fanLoop = [i |-> 0, at |-> "returned"]
    /\ rKeys = <<>>
    /\ rObjectArrayChan = <<>>
    /\ fetchTask = [t \in FetchTasks |-> [st |-> "none", key |-> NoId]]
    /\ received = <<>>

FanFrame ==
    UNCHANGED <<store, compress, minP, maxP, partVars, getVars, statVars, script, regVars,
                batchRet, gaugeVars, seedVars, topicVars, stopVars, lockVars, fanIds>>

\* go func() { ... }() (line 307): the goroutine of iteration i starts.
FanSpawn ==
    /\ ~crashed
    /\ fanLoop.at = "go"
    /\ fanLoop.i < Len(fanIds)
    /\ fetchTask' = [fetchTask EXCEPT ![fanLoop.i + 1] = [st |-> "waiting", key |-> NoId]]
    /\ fanLoop' = [fanLoop EXCEPT !.at = "push"]
    /\ UNCHANGED <<rKeys, rObjectArrayChan, received, faults, crashed>>
    /\ FanFrame

\* rKeys <- ids[i] (line 329); a send blocks while the buffer is full.
FanPushKey ==
    /\ ~crashed
    /\ fanLoop.at = "push"
    /\ Len(rKeys) < ChanCap
    /\ rKeys' = Append(rKeys, fanIds[fanLoop.i + 1])
    /\ fanLoop' = [i |-> fanLoop.i + 1, at |-> "go"]
    /\ UNCHANGED <<rObjectArrayChan, fetchTask, received, faults, crashed>>
    /\ FanFrame

\* riakKey = <-rKeys (line 312); a receive blocks while the channel is empty.
TaskPop(t) ==
    /\ ~crashed
    /\ fetchTask[t].st = "waiting"
    /\ rKeys # <<>>
    /\ fetchTask' = [fetchTask EXCEPT ![t] = [st |-> "got", key |-> Head(rKeys)]]
    /\ rKeys' = Tail(rKeys)
    /\ UNCHANGED <<fanLoop, rObjectArrayChan, received, faults, crashed>>
    /\ FanFrame

\* bucket.Get(riakKey) and rObjectArrayChan <- *rObject (lines 313-326).
\* "fetchErr" is bucket.Get failing with no object returned: the goroutine
\* dereferences the nil object and the process panics.
TaskFetch(t, o) ==
    /\ ~crashed
    /\ fetchTask[t].st = "got"
    /\ o \in {"ok", "fetchErr"}
    /\ faults + FaultCost(o) <= MaxFaults
    /\ faults' = faults + FaultCost(o)
    /\ IF o = "ok"
       THEN /\ Len(rObjectArrayChan) < ChanCap
            /\ rObjectArrayChan' = Append(rObjectArrayChan, Fetched(fetchTask[t].key))
            /\ fetchTask' = [fetchTask EXCEPT ![t].st = "done"]
            /\ UNCHANGED crashed
       ELSE /\ crashed' = TRUE
            /\ fetchTask' = [fetchTask EXCEPT ![t].st = "panic"]
            /\ UNCHANGED rObjectArrayChan
    /\ UNCHANGED <<fanLoop, rKeys, received>>
    /\ FanFrame

\* var rObject = <-rObjectArrayChan (lines 334-336), once the first loop is
\* through.
FanCollect ==
    /\ ~crashed
    /\ fanLoop.at = "go"
    /\ fanLoop.i = Len(fanIds)
    /\ Len(received) < Len(fanIds)
    /\ rObjectArrayChan # <<>>
    /\ received' = Append(received, Head(rObjectArrayChan))
    /\ rObjectArrayChan' = Tail(rObjectArrayChan)
    /\ UNCHANGED <<fanLoop, rKeys, fetchTask, faults, crashed>>
    /\ FanFrame

\* The second loop has run len(ids) times: RetrieveMessages returns.
FanReturn ==
    /\ ~crashed
    /\ fanLoop.at = "go"
    /\ fanLoop.i = Len(fanIds)
    /\ Len(received) = Len(fanIds)
    /\ fanLoop' = [fanLoop EXCEPT !.at = "returned"]
    /\ UNCHANGED <<rKeys, rObjectArrayChan, fetchTask, received, faults, crashed>>
    /\ FanFrame

NoRest ==
    /\ NoSeeds
    /\ NoBroadcast
    /\ NoStop
    /\ NoLocks
    /\ NoFan

----------------------------------------------------------------------------
\* Registry reconciliation: Queues.syncConfig and Topics.syncConfig against
\* the configuration bucket of the shared store.

QueueNames == {"q1", "q2"}
TopicNames == {"t1"}
Settings == 1 .. MaxPartitions
NoQueue == "-"

\* bucket.FetchMap: the stored map, or nil together with an error.
NilQueueCfg == [nil |-> TRUE, parts |-> 0]
NilTopicCfg == [nil |-> TRUE, queues |-> {}]

FetchQueueMap(name, ok) ==
    IF ok THEN [nil |-> FALSE, parts |-> sSettings[name]] ELSE NilQueueCfg

FetchTopicMap(links, name, ok) ==
    IF ok THEN [nil |-> FALSE, queues |-> links[name]] ELSE NilTopicCfg

\* The partition set of a new queue, sized to the configured minimum.
InitPartitions(config) == IF config.nil THEN 1 ELSE config.parts

\* Parts.syncPartitions: the partition count follows the settings snapshot.
syncPartitions(parts, config) == IF config.nil THEN parts ELSE config.parts

NoEntities == [n \in {} |-> NoQueue]

initQueueFromRiakUnregistered(qm, queueName, ok) == qm

\* initQueueFromRiak: the fetch error is ignored; the queue is registered.
initQueueFromRiak(qm, queueName, ok) ==
    LET config == FetchQueueMap(queueName, ok)
        queue == [Name |-> queueName, Parts |-> InitPartitions(config), Config |-> config]
    IN [q \in DOMAIN qm \cup {queueName} |-> IF q = queueName THEN queue ELSE qm[q]]

\* The add loop of Queues.syncConfig over queueSlice; the settings fetch of
\* the names in bad fails.
RECURSIVE AddMissingQueues(_, _, _)
AddMissingQueues(qm, queueSlice, bad) ==
    IF queueSlice = {} THEN qm
    ELSE LET queueName == CHOOSE n \in queueSlice : TRUE
             present == queueName \in DOMAIN qm
             next == IF present THEN qm
                     ELSE initQueueFromRiak(qm, queueName, queueName \notin bad)
         IN AddMissingQueues(next, queueSlice \ {queueName}, bad)

queuesToKeep == queuesConfig

\* Queue.syncConfig: updateConfig with whatever FetchMap returned, then
\* syncPartitions.
QueueSyncFromRiak(queue, ok) ==
    LET rCfg == FetchQueueMap(queue.Name, ok)
    IN [queue EXCEPT !.Config = rCfg, !.Parts = syncPartitions(queue.Parts, rCfg)]

\* Topic.ListQueues, of a topic whose Config is not nil.
ListQueues(topic) == topic.Config.queues

\* Topics.InitTopic: the fetch error is ignored.
InitTopic(links, name, ok) == [Name |-> name, Config |-> FetchTopicMap(links, name, ok)]

\* Topic.syncConfig has a value receiver: the fetched map is assigned to a
\* copy of the topic and the registered topic keeps its Config.
TopicSyncConfig(topic, fetched) == topic

Remove(m, name) == [n \in DOMAIN m \ {name} |-> m[n]]

RegOutcome(o) == IF o = "ok" THEN faults' = faults ELSE faults < MaxFaults /\ faults' = faults + 1

\* Queues.syncConfig, lines 366-408: fetch the queue set; skip the cycle on an
\* error, return when the set has no values.
QueuesFetch(o) ==
    /\ ~crashed
    /\ qpc = "idle"
    /\ RegOutcome(o)
    /\ IF o = "ok"
       THEN /\ queuesConfig' = sQueues
            /\ qpc' = IF sQueues = {} THEN "idle" ELSE "add"
       ELSE UNCHANGED <<queuesConfig, qpc>>
    /\ UNCHANGED <<storeVars, QueueMap, TopicMap, qcur, qtodo, tpc, topicSlice, discarded>>
    /\ UNCHANGED <<queueVars, crashed>>

\* lines 410-421
QueuesAdd(bad) ==
    /\ ~crashed
    /\ qpc = "add"
    /\ bad \subseteq queuesConfig \ DOMAIN QueueMap
    /\ faults + Cardinality(bad) <= MaxFaults
    /\ faults' = faults + Cardinality(bad)
    /\ QueueMap' = AddMissingQueues(QueueMap, queuesConfig, bad)
    /\ discarded' = discarded \ DOMAIN QueueMap'
    /\ qpc' = "teardown"
    /\ UNCHANGED <<storeVars, queuesConfig, TopicMap, qcur, qtodo, tpc, topicSlice>>
    /\ UNCHANGED <<queueVars, crashed>>

\* lines 425-429: the next local queue that is not to be kept
QueuesTeardown(queue) ==
    /\ ~crashed
    /\ qpc = "teardown"
    /\ queue \in DOMAIN QueueMap \ queuesToKeep
    /\ qpc' = "cascade"
    /\ qcur' = queue
    /\ qtodo' = DOMAIN TopicMap
    /\ UNCHANGED <<storeVars, QueueMap, queuesConfig, TopicMap, tpc, topicSlice, discarded>>
    /\ UNCHANGED <<queueVars, faults, crashed>>

\* Topic.DeleteQueue: fetch the topic's map, remove the name, Store (its
\* error is ignored), fetch again.
DeleteQueueFails(topic, o) == o = "fetchErr" \/ sLinks[topic] = {}

DeleteQueueLinks(topic, name, o) ==
    IF o = "ok" THEN [sLinks EXCEPT ![topic] = @ \ {name}] ELSE sLinks

DeleteQueue(topic, name, o) ==
    /\ sLinks' = DeleteQueueLinks(topic, name, o)
    /\ TopicMap' = [TopicMap EXCEPT ![topic].Config = FetchTopicMap(sLinks', topic, TRUE)]

\* lines 429-436: one topic of the cascade
QueuesCascade(topic, o) ==
    /\ ~crashed
    /\ qpc = "cascade"
    /\ topic \in qtodo
    /\ o \in {"ok", "storeErr", "fetchErr"}
    /\ LET gone == topic \notin DOMAIN TopicMap
           listed == ~gone /\ ~TopicMap[topic].Config.nil /\ qcur \in ListQueues(TopicMap[topic])
           panics == \/ gone
                     \/ TopicMap[topic].Config.nil
                     \/ listed /\ DeleteQueueFails(topic, o)
       IN /\ IF listed THEN RegOutcome(o) ELSE o = "ok" /\ faults' = faults
          /\ IF panics
             THEN /\ crashed' = TRUE
                  /\ UNCHANGED <<sLinks, TopicMap, qtodo>>
             ELSE /\ crashed' = crashed
                  /\ qtodo' = qtodo \ {topic}
                  /\ IF listed THEN DeleteQueue(topic, qcur, o)
                     ELSE UNCHANGED <<sLinks, TopicMap>>
    /\ UNCHANGED <<sQueues, sTopics, sSettings, QueueMap, queuesConfig, qpc, qcur, tpc,
                   topicSlice, discarded>>
    /\ UNCHANGED queueVars

\* line 437
QueuesDiscard ==
    /\ ~crashed
    /\ qpc = "cascade"
    /\ qtodo = {}
    /\ QueueMap' = Remove(QueueMap, qcur)
    /\ discarded' = discarded \cup {qcur}
    /\ qpc' = "teardown"
    /\ qcur' = NoQueue
    /\ UNCHANGED <<storeVars, queuesConfig, TopicMap, qtodo, tpc, topicSlice>>
    /\ UNCHANGED <<queueVars, faults, crashed>>

\* lines 441-444: the settings fetch of the queues in bad fails
QueuesResync(bad) ==
    /\ ~crashed
    /\ qpc = "teardown"
    /\ DOMAIN QueueMap \subseteq queuesToKeep
    /\ bad \subseteq DOMAIN QueueMap
    /\ faults + Cardinality(bad) <= MaxFaults
    /\ faults' = faults + Cardinality(bad)
    /\ QueueMap' = [q \in DOMAIN QueueMap |-> QueueSyncFromRiak(QueueMap[q], q \notin bad)]
    /\ qpc' = "idle"
    /\ UNCHANGED <<storeVars, queuesConfig, TopicMap, qcur, qtodo, tpc, topicSlice, discarded>>
    /\ UNCHANGED <<queueVars, crashed>>

\* Topics.syncConfig, lines 160-184: the fetch error is only logged and the
\* nil map is used.
TopicsFetch(o) ==
    /\ ~crashed
    /\ tpc = "idle"
    /\ RegOutcome(o)
    /\ IF o = "ok"
       THEN /\ topicSlice' = sTopics
            /\ tpc' = IF sTopics = {} THEN "idle" ELSE "add"
            /\ crashed' = crashed
       ELSE /\ crashed' = TRUE
            /\ UNCHANGED <<topicSlice, tpc>>
    /\ UNCHANGED <<storeVars, QueueMap, queuesConfig, TopicMap, qpc, qcur, qtodo, discarded>>
    /\ UNCHANGED queueVars

\* lines 187-197; InitTopic also adds the name to the stored topic set
TopicsAdd(bad) ==
    /\ ~crashed
    /\ tpc = "add"
    /\ bad \subseteq topicSlice \ DOMAIN TopicMap
    /\ faults + Cardinality(bad) <= MaxFaults
    /\ faults' = faults + Cardinality(bad)
    /\ TopicMap' = [t \in DOMAIN TopicMap \cup topicSlice |->
                       IF t \in DOMAIN TopicMap THEN TopicMap[t]
                       ELSE InitTopic(sLinks, t, t \notin bad)]
    /\ sTopics' = sTopics \cup (topicSlice \ DOMAIN TopicMap)
    /\ tpc' = "sweep"
    /\ UNCHANGED <<sQueues, sLinks, sSettings, QueueMap, queuesConfig, qpc, qcur, qtodo,
                   topicSlice, discarded>>
    /\ UNCHANGED <<queueVars, crashed>>

\* lines 198-216
TopicsSweep ==
    /\ ~crashed
    /\ tpc = "sweep"
    /\ TopicMap' = [t \in DOMAIN TopicMap \cap topicSlice |->
                       TopicSyncConfig(TopicMap[t], FetchTopicMap(sLinks, t, TRUE))]
    /\ tpc' = "idle"
    /\ UNCHANGED <<storeVars, QueueMap, queuesConfig, qpc, qcur, qtodo, topicSlice, discarded>>
    /\ UNCHANGED <<queueVars, faults, crashed>>

\* Topic.AddQueue on this node: fetch, add the name, Store (its error is
\* ignored), fetch again.
TopicAddQueue(topic, name, o) ==
    /\ ~crashed
    /\ topic \in DOMAIN TopicMap
    /\ name \in DOMAIN QueueMap \cap sQueues
    /\ o \in {"ok", "storeErr", "fetchErr"}
    /\ RegOutcome(o)
    /\ IF o = "fetchErr"
       THEN /\ crashed' = TRUE
            /\ UNCHANGED <<sLinks, TopicMap>>
       ELSE /\ crashed' = crashed
            /\ sLinks' = IF o = "ok" THEN [sLinks EXCEPT ![topic] = @ \cup {name}] ELSE sLinks
            /\ TopicMap' = [TopicMap EXCEPT ![topic].Config = FetchTopicMap(sLinks', topic, TRUE)]
    /\ UNCHANGED <<sQueues, sTopics, sSettings, QueueMap, queuesConfig, qpc, qcur, qtodo, tpc,
                   topicSlice, discarded>>
    /\ UNCHANGED queueVars

\* The other members of the cluster and their administrators change the
\* shared store.
RemoteAddQueue(name) ==
    /\ ~crashed
    /\ name \notin sQueues
    /\ sQueues' = sQueues \cup {name}
    /\ UNCHANGED <<sTopics, sLinks, sSettings, QueueMap, queuesConfig, TopicMap, qpc, qcur,
                   qtodo, tpc, topicSlice, discarded>>
    /\ UNCHANGED <<queueVars, faults, crashed>>

RemoteDeleteQueue(name) ==
    /\ ~crashed
    /\ name \in sQueues
    /\ sQueues' = sQueues \ {name}
    /\ UNCHANGED <<sTopics, sLinks, sSettings, QueueMap, queuesConfig, TopicMap, qpc, qcur,
                   qtodo, tpc, topicSlice, discarded>>
    /\ UNCHANGED <<queueVars, faults, crashed>>

RemoteInitTopic(name) ==
    /\ ~crashed
    /\ name \notin sTopics
    /\ sTopics' = sTopics \cup {name}
    /\ UNCHANGED <<sQueues, sLinks, sSettings, QueueMap, queuesConfig, TopicMap, qpc, qcur,
                   qtodo, tpc, topicSlice, discarded>>
    /\ UNCHANGED <<queueVars, faults, crashed>>

RemoteDeleteTopic(name) ==
    /\ ~crashed
    /\ name \in sTopics
    /\ sTopics' = sTopics \ {name}
    /\ sLinks' = [sLinks EXCEPT ![name] = {}]
    /\ UNCHANGED <<sQueues, sSettings, QueueMap, queuesConfig, TopicMap, qpc, qcur,
                   qtodo, tpc, topicSlice, discarded>>
    /\ UNCHANGED <<queueVars, faults, crashed>>

RemoteAddLink(topic, name) ==
    /\ ~crashed
    /\ topic \in sTopics
    /\ name \in sQueues
    /\ name \notin sLinks[topic]
    /\ sLinks' = [sLinks EXCEPT ![topic] = @ \cup {name}]
    /\ UNCHANGED <<sQueues, sTopics, sSettings, QueueMap, queuesConfig, TopicMap, qpc, qcur,
                   qtodo, tpc, topicSlice, discarded>>
    /\ UNCHANGED <<queueVars, faults, crashed>>

\* Queues.InitQueue of a queue this node has not seen: the queue is created
\* locally.
InitQueue(qm, name) == initQueueFromRiak(qm, name, TRUE)

RECURSIVE InitQueues(_, _)
InitQueues(qm, names) ==
    IF names = {} THEN qm
    ELSE LET queue == CHOOSE n \in names : TRUE
         IN InitQueues(IF queue \in DOMAIN qm THEN qm ELSE InitQueue(qm, queue),
                       names \ {queue})

\* Topic.Broadcast: one Put per name of topic.Config's queue set.  idOf is
\* the id rand.Int draws in each queue's Put, outs how each Put goes ("ok",
\* "bucketErr", "storeErr").  FetchSet returns nil for a map without a queue
\* set, and so does a nil Config.
Broadcast(topic, idOf, outs) ==
    /\ ~crashed
    /\ topic \in DOMAIN TopicMap
    /\ ~fanout.called
    /\ LET config == TopicMap[topic].Config
           linked == config.queues
           failing == {q \in linked : outs[q] # "ok"}
       IN /\ \A q \in QueueNames \ linked : outs[q] = "ok" /\ idOf[q] = 0
          /\ faults + Cardinality(failing) <= MaxFaults
          /\ faults' = faults + Cardinality(failing)
          /\ IF config.nil \/ linked = {}
             THEN /\ crashed' = TRUE
                  /\ fanout' = [NoFanout EXCEPT !.called = TRUE]
                  /\ UNCHANGED <<QueueMap, queueWrites>>
             ELSE /\ crashed' = crashed
                  /\ QueueMap' = InitQueues(QueueMap, linked)
                  /\ queueWrites' = <<[q \in linked |-> PutRet(idOf[q], outs[q])]>>
                  /\ fanout' = [called |-> TRUE, linked |-> linked,
                                puts |-> [q \in linked |-> 1],
                                stored |-> {q \in linked : PutStored(outs[q])}]
    /\ UNCHANGED <<storeVars, queuesConfig, TopicMap, qpc, qcur, qtodo, tpc, topicSlice,
                   discarded>>
    /\ UNCHANGED <<store, compress, minP, maxP, partVars, getVars, statVars, script,
                   batchRet, gaugeVars, seedVars, stopVars, lockVars, fanVars>>

\* Topic.DeleteQueue called on this node.
TopicDeleteQueue(topic, name, o) ==
    /\ ~crashed
    /\ topic \in DOMAIN TopicMap
    /\ o \in {"ok", "storeErr", "fetchErr"}
    /\ RegOutcome(o)
    /\ IF DeleteQueueFails(topic, o)
       THEN /\ crashed' = TRUE
            /\ UNCHANGED <<sLinks, TopicMap>>
       ELSE /\ crashed' = crashed
            /\ DeleteQueue(topic, name, o)
    /\ UNCHANGED <<sQueues, sTopics, sSettings, QueueMap, queuesConfig, qpc, qcur, qtodo, tpc,
                   topicSlice, discarded>>
    /\ UNCHANGED queueVars

\* A stop is sent to the sync loops of this node: a send on syncKiller, the
\* only stop channel there is.
StopSync ==
    /\ ~crashed
    /\ syncKiller = "open"
    /\ syncKiller' = "signalled"
    /\ UNCHANGED <<engineVars, regVars, batchRet, gaugeVars, seedVars, topicVars,
                   syncScheduler, lockVars, fanVars>>

\* Queues.scheduleSync, lines 460-462: between two cycles the select
\* receives from syncKiller, stops the ticker and returns.
QueuesExit ==
    /\ ~crashed
    /\ qpc = "idle"
    /\ syncKiller = "signalled"
    /\ syncKiller' = "received"
    /\ syncScheduler' = "stopped"
    /\ qpc' = "exited"
    /\ UNCHANGED <<storeVars, QueueMap, queuesConfig, TopicMap, qcur, qtodo, tpc, topicSlice,
                   discarded>>
    /\ UNCHANGED <<engineVars, batchRet, gaugeVars, seedVars, topicVars, lockVars, fanVars>>

NoRegistry ==
    /\ sQueues = {}
    /\ sTopics = {}
    /\ sLinks = [t \in TopicNames |-> {}]
    /\ sSettings = [q \in QueueNames |-> 1]
    /\ QueueMap = NoEntities
    /\ queuesConfig = {}
    /\ TopicMap = NoEntities
    /\ qpc = "idle"
    /\ qcur = NoQueue
    /\ qtodo = {}
    /\ tpc = "idle"
    /\ topicSlice = {}
    /\ discarded = {}

----------------------------------------------------------------------------
InitialStores ==
    {[k \in Keys |-> IF k \in S THEN <<<<"a">>>> ELSE <<>>] : S \in {{}, {0}, {0, MaxID - 1}}}

EmptyTable == [i \in Rows |-> <<0, -1>>]

EngineInit ==
    /\ store \in InitialStores
    /\ compress \in BOOLEAN
    /\ minP \in 1 .. MaxPartitions
    /\ maxP \in minP .. MaxPartitions
    /\ partCount = minP
    /\ pool = InitPool(minP)
    /\ ranges = Rebuild(EmptyTable, minP)
    /\ resizing = FALSE
    /\ target = minP
    /\ pc = [c \in Callers |-> "idle"]
    /\ hold = [c \in Callers |-> NoPart]
    /\ ids = [c \in Callers |-> <<>>]
    /\ pending = [c \in Callers |-> {}]
    /\ chan = [c \in Callers |-> <<>>]
    /\ cnt = [c \in Callers |-> 0]
    /\ vals = [c \in Callers |-> <<>>]
    /\ qerr = [c \in Callers |-> FALSE]
    /\ ret = [c \in Callers |-> NoRet]
    /\ rel = [c \in Callers |-> <<>>]
    /\ leased = [c \in Callers |-> NoPart]
    /\ repairs = [c \in Callers |-> <<>>]
    /\ sent = 0
    /\ depth = 0
    /\ deleted = 0
    /\ faults = 0
    /\ crashed = FALSE
    /\ script \in [msg : Messages, id : GenIds]
    /\ batchRet = NoBatchRet

vars == <<engineVars, regVars, auxVars>>

\* The engine with producers, one consumer and injected failures.
MsgCallers == {"c1"}

NoScript == [msg |-> <<>>, id |-> 0]

Init ==
    /\ EngineInit
    /\ NoRegistry
    /\ NoGauges
    /\ NoRest
    /\ store = [k \in Keys |-> <<>>]
    /\ maxP = minP
    /\ script = NoScript

Next ==
    \/ \E m \in Messages, id \in GenIds, o \in PutOutcomes : Put(m, id, o)
    \/ \E id \in Keys, o \in {"ok", "bucketErr", "deleteErr"} : Delete(id, o)
    \/ \E c \in MsgCallers, o \in {"ok", "bucketErr"} : GetBegin(c, o)
    \/ \E c \in MsgCallers, n \in 1 .. MaxBatch, o \in {"ok", "queryErr"} : GetQuery(c, n, o)
    \/ \E c \in MsgCallers, i \in 1 .. MaxBatch, o \in {"ok", "fetchErr"} : GetFetch(c, i, o)
    \/ \E c \in MsgCallers : GetCollect(c)
    \/ \E c \in MsgCallers : GetReturn(c)

Spec == Init /\ [][Next]_vars

\* Competing consumers of one queue while its partitions are resynced; the
\* bucket holds what earlier Puts left in it.
LeaseInit ==
    /\ EngineInit
    /\ NoRegistry
    /\ NoGauges
    /\ NoRest
    /\ compress = FALSE
    /\ script = NoScript

LeaseNext ==
    \/ \E c \in Callers, o \in {"ok", "bucketErr"} : GetBegin(c, o)
    \/ \E c \in Callers, n \in 1 .. MaxBatch, o \in {"ok", "queryErr"} : GetQuery(c, n, o)
    \/ \E c \in Callers, i \in 1 .. MaxBatch, o \in {"ok", "fetchErr"} : GetFetch(c, i, o)
    \/ \E c \in Callers : GetCollect(c)
    \/ \E c \in Callers : GetReturn(c)
    \/ \E c \in Callers : GetReset(c)
    \/ \E lo \in 1 .. MaxPartitions, hi \in 1 .. MaxPartitions, n \in 1 .. MaxPartitions :
          QueueSyncConfig(compress, lo, hi, n)
    \/ ResyncEnd

SpecLease == LeaseInit /\ [][LeaseNext]_vars

\* Consumers of an empty queue (a Get has nothing to fetch), a lease request
\* being a step of its own; a lease request comes to an end, with a
\* partition or with the error.
WaitInit ==
    /\ LeaseInit
    /\ store = [k \in Keys |-> <<>>]

WaitNext ==
    \/ \E c \in Callers, o \in {"ok", "bucketErr"} : GetOpen(c, o)
    \/ \E c \in Callers : GetLease(c)
    \/ \E c \in Callers : LeaseTimeout(c)
    \/ \E c \in Callers, n \in 1 .. MaxBatch, o \in {"ok", "queryErr"} : GetQuery(c, n, o)
    \/ \E c \in Callers : GetReturn(c)
    \/ \E c \in Callers : GetReset(c)
    \/ \E lo \in 1 .. MaxPartitions, hi \in 1 .. MaxPartitions, n \in 1 .. MaxPartitions :
          QueueSyncConfig(compress, lo, hi, n)
    \/ ResyncEnd

SpecWait ==
    /\ WaitInit
    /\ [][WaitNext]_vars
    /\ \A c \in Callers : WF_vars(GetLease(c) \/ LeaseTimeout(c))

\* The end-to-end run on an empty queue: the producer Puts script.msg, a
\* consumer calls Get(1), the message's id is deleted, a consumer calls Get(1).
E2EInit ==
    /\ EngineInit
    /\ NoRegistry
    /\ NoGauges
    /\ NoRest
    /\ store = [k \in Keys |-> <<>>]
    /\ maxP = minP

E2EPut ==
    /\ sent = 0
    /\ faults = 0
    /\ \E o \in PutOutcomes : Put(script.msg, script.id, o)

\* Put has returned an id
PutReturned == sent = 1

E2EGetBegin(c) ==
    /\ \/ c = "c1" /\ PutReturned /\ deleted = 0
       \/ c = "c2" /\ deleted = 1
    /\ \E o \in {"ok", "bucketErr"} : GetBegin(c, o)

E2EGetQuery(c) == \E o \in {"ok", "queryErr"} : GetQuery(c, 1, o)

E2EGetFetch(c) == \E o \in {"ok", "fetchErr"} : GetFetch(c, 1, o)

E2EDelete ==
    /\ pc["c1"] = "done"
    /\ deleted = 0
    /\ \E o \in {"ok", "bucketErr", "deleteErr"} : Delete(script.id, o)

E2ENext ==
    \/ E2EPut
    \/ \E c \in Callers : E2EGetBegin(c)
    \/ \E c \in Callers : E2EGetQuery(c)
    \/ \E c \in Callers : E2EGetFetch(c)
    \/ \E c \in Callers : GetCollect(c)
    \/ \E c \in Callers : GetReturn(c)
    \/ E2EDelete

SpecE2E == E2EInit /\ [][E2ENext]_vars

\* The registries of one node next to the rest of the cluster; the engine is
\* idle.
SyncInit ==
    /\ EngineInit
    /\ NoGauges
    /\ NoRest
    /\ store = [k \in Keys |-> <<>>]
    /\ compress = FALSE
    /\ maxP = 1
    /\ script = NoScript
    /\ sQueues \in SUBSET QueueNames
    /\ sTopics \in SUBSET TopicNames
    /\ sLinks = [t \in TopicNames |-> {}]
    /\ sSettings \in [QueueNames -> Settings]
    /\ QueueMap = NoEntities
    /\ queuesConfig = {}
    /\ TopicMap = NoEntities
    /\ qpc = "idle"
    /\ qcur = NoQueue
    /\ qtodo = {}
    /\ tpc = "idle"
    /\ topicSlice = {}
    /\ discarded = {}

SyncNext ==
    \/ \E o \in {"ok", "fetchErr"} : QueuesFetch(o)
    \/ \E bad \in SUBSET QueueNames : QueuesAdd(bad)
    \/ \E q \in QueueNames : QueuesTeardown(q)
    \/ \E t \in TopicNames, o \in {"ok", "storeErr", "fetchErr"} : QueuesCascade(t, o)
    \/ QueuesDiscard
    \/ \E bad \in SUBSET QueueNames : QueuesResync(bad)
    \/ \E o \in {"ok", "fetchErr"} : TopicsFetch(o)
    \/ \E bad \in SUBSET TopicNames : TopicsAdd(bad)
    \/ TopicsSweep
    \/ \E t \in TopicNames, q \in QueueNames, o \in {"ok", "storeErr", "fetchErr"} :
          TopicAddQueue(t, q, o)
    \/ \E q \in QueueNames : RemoteAddQueue(q)
    \/ \E q \in QueueNames : RemoteDeleteQueue(q)
    \/ \E t \in TopicNames : RemoteInitTopic(t)
    \/ \E t \in TopicNames : RemoteDeleteTopic(t)
    \/ \E t \in TopicNames, q \in QueueNames : RemoteAddLink(t, q)

SpecSync == SyncInit /\ [][SyncNext]_vars

\* The two sync loops and the stop sent to them; the shared store holds a
\* topic, another member deletes queues.
StopInit ==
    /\ SyncInit
    /\ sTopics = TopicNames

StopNext ==
    \/ \E o \in {"ok", "fetchErr"} : QueuesFetch(o)
    \/ \E bad \in SUBSET QueueNames : QueuesAdd(bad)
    \/ \E q \in QueueNames : QueuesTeardown(q)
    \/ \E t \in TopicNames, o \in {"ok", "storeErr", "fetchErr"} : QueuesCascade(t, o)
    \/ QueuesDiscard
    \/ \E bad \in SUBSET QueueNames : QueuesResync(bad)
    \/ \E o \in {"ok", "fetchErr"} : TopicsFetch(o)
    \/ \E bad \in SUBSET TopicNames : TopicsAdd(bad)
    \/ TopicsSweep
    \/ \E q \in QueueNames : RemoteDeleteQueue(q)
    \/ StopSync
    \/ QueuesExit

\* The ticker keeps ticking and a started cycle runs on; the select picks
\* among its ready cases at random, so a waiting stop is received after
\* finitely many ticks; time.Sleep returns.
StopFairness ==
    /\ WF_vars(\E o \in {"ok", "fetchErr"} : QueuesFetch(o))
    /\ WF_vars(\E bad \in SUBSET QueueNames : QueuesAdd(bad))
    /\ WF_vars(\E q \in QueueNames : QueuesTeardown(q))
    /\ WF_vars(\E t \in TopicNames, o \in {"ok", "storeErr", "fetchErr"} : QueuesCascade(t, o))
    /\ WF_vars(QueuesDiscard)
    /\ WF_vars(\E bad \in SUBSET QueueNames : QueuesResync(bad))
    /\ WF_vars(\E o \in {"ok", "fetchErr"} : TopicsFetch(o))
    /\ WF_vars(\E bad \in SUBSET TopicNames : TopicsAdd(bad))
    /\ WF_vars(TopicsSweep)
    /\ SF_vars(QueuesExit)

SpecStop == StopInit /\ [][StopNext]_vars /\ StopFairness

\* The goroutines that touch a Config field, in every interleaving.
LocksInit ==
    /\ EngineInit
    /\ NoRegistry
    /\ NoGauges
    /\ NoRest
    /\ store = [k \in Keys |-> <<>>]
    /\ compress = FALSE
    /\ maxP = 1
    /\ script = NoScript

LocksNext ==
    \/ \E g \in Goroutines : Call(g)
    \/ \E g \in Goroutines : Lock(g)
    \/ \E g \in Goroutines : Unlock(g)
    \/ \E g \in Goroutines : RLock(g)
    \/ \E g \in Goroutines : RUnlock(g)
    \/ \E g \in Goroutines : ReadConfig(g)
    \/ \E g \in Goroutines : WriteConfig(g)

SpecLocks == LocksInit /\ [][LocksNext]_vars

\* The topic operations of a node whose registries are loaded: the stored
\* queues, any of them materialized locally, the topic initialized.
TopicsInit ==
    /\ EngineInit
    /\ NoGauges
    /\ NoRest
    /\ store = [k \in Keys |-> <<>>]
    /\ compress = FALSE
    /\ maxP = 1
    /\ script = NoScript
    /\ sQueues \in SUBSET QueueNames
    /\ sTopics = TopicNames
    /\ sLinks = [t \in TopicNames |-> {}]
    /\ sSettings = [q \in QueueNames |-> 1]
    /\ \E local \in SUBSET sQueues : QueueMap = InitQueues(NoEntities, local)
    /\ queuesConfig = sQueues
    /\ \E ok \in BOOLEAN : TopicMap = [t \in TopicNames |-> InitTopic(sLinks, t, ok)]
    /\ qpc = "idle"
    /\ qcur = NoQueue
    /\ qtodo = {}
    /\ tpc = "idle"
    /\ topicSlice = {}
    /\ discarded = {}

TopicsNext ==
    \/ \E t \in TopicNames, q \in QueueNames, o \in {"ok", "storeErr", "fetchErr"} :
          TopicAddQueue(t, q, o)
    \/ \E t \in TopicNames, q \in QueueNames, o \in {"ok", "storeErr", "fetchErr"} :
          TopicDeleteQueue(t, q, o)
    \/ \E t \in TopicNames, q \in QueueNames : RemoteAddLink(t, q)
    \/ \E t \in TopicNames, idOf \in [QueueNames -> GenIds],
          outs \in [QueueNames -> {"ok", "bucketErr", "storeErr"}] : Broadcast(t, idOf, outs)

SpecTopics == TopicsInit /\ [][TopicsNext]_vars

\* The deleters of one queue; the bucket holds what earlier Puts left in it.
DeleteInit ==
    /\ EngineInit
    /\ NoRegistry
    /\ NoGauges
    /\ NoRest
    /\ compress = FALSE
    /\ maxP = minP
    /\ script = NoScript

DeleteNext ==
    \/ \E id \in Keys, o \in {"ok", "bucketErr", "deleteErr"} : Delete(id, o)
    \/ \E idList \in IdLists, bad \in SUBSET (1 .. MaxBatch), o \in {"ok", "bucketErr"} :
          BatchDelete(idList, bad, o)

SpecDelete == DeleteInit /\ [][DeleteNext]_vars

\* The approximate-depth gauge, set from every sample.
DepthInit ==
    /\ EngineInit
    /\ NoRegistry
    /\ store = [k \in Keys |-> <<>>]
    /\ compress = FALSE
    /\ maxP = 1
    /\ script = NoScript
    /\ sample \in Samples
    /\ fillInput = NoFillInput
    /\ gauge = [depthApr |-> Unset, fill |-> Unset]
    /\ NoRest

DepthNext == \E v \in IntMin .. IntMax : SetQueueDepthApr(v)

SpecDepth == DepthInit /\ [][DepthNext]_vars

\* The fill gauge, set from every batch size and message count.
FillInit ==
    /\ EngineInit
    /\ NoRegistry
    /\ store = [k \in Keys |-> <<>>]
    /\ compress = FALSE
    /\ maxP = 1
    /\ script = NoScript
    /\ sample = NoSample
    /\ fillInput \in FillInputs
    /\ gauge = [depthApr |-> Unset, fill |-> Unset]
    /\ NoRest

FillNext == RecordFillRatio

SpecFill == FillInit /\ [][FillNext]_vars

\* prioritizeSeedServers, called with every seed list and own address.
SeedsInit ==
    /\ EngineInit
    /\ NoRegistry
    /\ NoGauges
    /\ store = [k \in Keys |-> <<>>]
    /\ compress = FALSE
    /\ maxP = 1
    /\ script = NoScript
    /\ myName \in Addrs
    /\ seedServers \in SeedLists
    /\ prioritizedServers = Unset
    /\ NoBroadcast
    /\ NoStop
    /\ NoLocks
    /\ NoFan

SeedsNext == InitMemberList

SpecSeeds == SeedsInit /\ [][SeedsNext]_vars

----------------------------------------------------------------------------
\* Properties of the partition lease manager and of Get's use of it
\* (checked under SpecLease).

\* C1: lease exclusivity.  No two callers hold the same partition, and a
\* partition a caller holds is not in the pool where a second GetPartition
\* could take it, under every interleaving of Gets and resyncs.
LeaseExclusive ==
    /\ \A c, d \in Callers :
          (c # d /\ hold[c] # NoPart /\ hold[d] # NoPart) => hold[c].id # hold[d].id
    /\ \A c \in Callers : hold[c] # NoPart => hold[c].id \notin PoolIds(pool)

\* Both callers hold a partition at once, one of them leased before a resize.
LeaseExclusiveWitness ==
    /\ hold["c1"] # NoPart
    /\ hold["c2"] # NoPart
    /\ hold["c1"].hi # ranges[hold["c1"].id][2]

RangeOf(i) == ranges[i][1] .. ranges[i][2]

\* C2: partition coverage.  Whenever the partition set is not being resized,
\* the partition count lies between the configured minimum and maximum, the
\* ranges of the partitions are pairwise disjoint, and their union is the
\* whole id space [0, MaxID].
PartitionCoverage ==
    ~resizing =>
        /\ partCount \in minP .. maxP
        /\ \A i, j \in 0 .. (partCount - 1) : i # j => RangeOf(i) \cap RangeOf(j) = {}
        /\ UNION {RangeOf(i) : i \in 0 .. (partCount - 1)} = 0 .. MaxID

\* A stable set of MaxPartitions partitions reached by a resync, with a
\* partition leased, another released, after a Get ran on the queue.
PartitionCoverageWitness ==
    /\ ~resizing
    /\ partCount = MaxPartitions
    /\ minP < MaxPartitions
    /\ hold["c1"] # NoPart
    /\ rel["c2"] # <<>>

\* C8: lease/release pairing.  A Get that has returned after leasing a
\* partition released that partition exactly once, locked iff the range
\* query gave at least one id (so unlocked when the query failed), and holds
\* nothing any more; a Get whose lease failed released nothing.
ReleasePairing ==
    \A c \in Callers :
        pc[c] = "done" =>
            /\ hold[c] = NoPart
            /\ leased[c] # NoPart =>
                  rel[c] = <<[id |-> leased[c].id, lock |-> ret[c].count > 0]>>
            /\ (leased[c] # NoPart /\ ret[c].err) => ~rel[c][1].lock
            /\ leased[c] = NoPart => rel[c] = <<>>

\* One Get returned a batch and released locked, the other returned after a
\* failed range query and released unlocked.
ReleasePairingWitness ==
    /\ pc["c1"] = "done" /\ ret["c1"].count > 0 /\ Len(rel["c1"]) = 1 /\ rel["c1"][1].lock
    /\ pc["c2"] = "done" /\ ret["c2"].err /\ Len(rel["c2"]) = 1 /\ ~rel["c2"][1].lock

----------------------------------------------------------------------------
\* Properties of the message engine (checked under Spec and SpecE2E).

\* C3: read-repair.  When a Get has returned, every object it found in
\* conflict with N siblings carrying data was split into N messages, each
\* written under its own id that no object was stored under, and the
\* conflicted key was gone after the repair.
ReadRepairSplits ==
    \A c \in Callers :
        pc[c] = "done" =>
            \A i \in 1 .. Len(repairs[c]) :
                LET r == repairs[c][i]
                IN /\ Cardinality(r.newIds) = r.n
                   /\ r.nstored = r.n
                   /\ r.nfresh = r.n
                   /\ r.gone

FirstGetDone == pc["c1"] = "done" /\ deleted = 0

Delivered == <<[key |-> script.id, data |-> script.msg]>>

\* The message has data, its object was written in the form the Get's
\* compression setting decodes, the Get leased the partition whose range
\* holds the message's id, and its range query did not fail.
Deliverable ==
    /\ script.msg # <<>>
    /\ store[script.id] = <<IF compress THEN Compress(script.msg) ELSE script.msg>>
    /\ leased["c1"] # NoPart
    /\ leased["c1"].lo <= script.id /\ script.id <= leased["c1"].hi
    /\ ~ret["c1"].err

\* C4, as the claim states it: on an empty queue, whatever the partition
\* count, when no call fails, Put(m) of a message with data followed by
\* Get(1) returns exactly the message m; after its Delete the next Get(1)
\* returns an empty batch.
E2ERoundTrip ==
    /\ (FirstGetDone /\ faults = 0 /\ script.msg # <<>>) => ret["c1"].msgs = Delivered
    /\ pc["c2"] = "done" => ret["c2"].msgs = <<>>

\* C4, amended: the Get(1) that follows Put(m) returns exactly the message m
\* when the message is deliverable to it (see Deliverable) and an empty
\* batch otherwise; after the Delete of the id succeeded the next Get(1)
\* returns an empty batch.
E2ERoundTripLeased ==
    /\ FirstGetDone => ret["c1"].msgs = IF Deliverable THEN Delivered ELSE <<>>
    /\ pc["c2"] = "done" => ret["c2"].msgs = <<>>

\* A compressed message came back from a queue of MaxPartitions partitions,
\* was deleted, and the next Get(1) ran its range query and returned.
E2ERoundTripWitness ==
    /\ pc["c2"] = "done"
    /\ ~ret["c2"].err
    /\ leased["c2"] # NoPart
    /\ ret["c1"].msgs = Delivered
    /\ script.msg # <<>>
    /\ compress
    /\ partCount = MaxPartitions

\* C9: a failed fetch of one id does not bring the Get down, and what the
\* Get returns are the fetched objects that carry data.
FetchFailureTolerated ==
    /\ ~crashed
    /\ \A c \in Callers :
          pc[c] = "done" => \A i \in 1 .. Len(ret[c].msgs) : ret[c].msgs[i].data # <<>>

\* C10: a Put whose object could not be written returns no id and leaves
\* sent.count and depth.count as they were.
PutWriteFailure ==
    [][\A m \in Messages, id \in GenIds :
          Put(m, id, "storeErr") =>
              /\ PutRet(id, "storeErr") = NoId
              /\ sent' = sent
              /\ depth' = depth]_vars

----------------------------------------------------------------------------
\* Properties of the registry reconciliation

\* a step that completes a Queues.syncConfig cycle that went past the fetch
QueuesCycleEnds == qpc # "idle" /\ qpc' = "idle"

\* a step that ends a cycle whose fetch of the shared queue set succeeded
QueuesCycleFetched == QueuesCycleEnds \/ (QueuesFetch("ok") /\ qpc' = "idle")

\* the queue names a registered topic lists (none when its Config is nil)
Links(topic) == IF topic.Config.nil THEN {} ELSE ListQueues(topic)

ReconcileRemove ==
    [][QueuesCycleFetched =>
          \A q \in QueueNames \ queuesConfig' :
              /\ q \notin DOMAIN QueueMap'
              /\ q \in discarded' => \A t \in DOMAIN TopicMap' : q \notin Links(TopicMap'[t])]_vars

\* C7: no registered topic lists a queue that the reconciliation loop has
\* discarded from QueueMap.
CascadeBeforeDiscard ==
    \A q \in discarded : \A t \in DOMAIN TopicMap : q \notin Links(TopicMap[t])

----------------------------------------------------------------------------
\* Properties of Delete and BatchDelete

\* the keys a step removed from the bucket
Removed == {k \in Keys : store[k] # <<>> /\ store'[k] = <<>>}

DeleteCounts ==
    \A id \in Keys, o \in {"ok", "bucketErr", "deleteErr"} :
        (batchRet' = batchRet /\ Delete(id, o)) =>
            /\ DeleteRet(o) <=> Removed = {id}
            /\ depth' = depth - Cardinality(Removed)
            /\ deleted' = deleted + Cardinality(Removed)

BatchDeleteCounts(outcomes) ==
    (batchRet'.flip # batchRet.flip /\ batchRet'.o \in outcomes) =>
        /\ batchRet'.errors = batchRet'.n - Cardinality(Removed)
        /\ depth' = depth - Cardinality(Removed)
        /\ deleted' = deleted + Cardinality(Removed)

\* C11, as the claim states it: every BatchDelete returns as its failure
\* count the number of ids it did not delete and moves the depth and deleted
\* counters by the number of ids it deleted; Delete returns true and moves
\* them by 1 exactly when it deleted the id.
BatchDeletePartial ==
    [][DeleteCounts /\ BatchDeleteCounts({"ok", "bucketErr"})]_vars

\* C11, amended: that holds of every BatchDelete that could open the bucket;
\* one that could not deletes nothing, leaves the counters alone and returns
\* the error with a failure count of 0.
BatchDeletePartialOpened ==
    [][/\ DeleteCounts
       /\ BatchDeleteCounts({"ok"})
       /\ (batchRet'.flip # batchRet.flip /\ batchRet'.o = "bucketErr") =>
              /\ batchRet'.errors = 0
              /\ batchRet'.err
              /\ UNCHANGED <<store, depth, deleted>>]_vars

\* a BatchDelete of two ids deleted one and failed on the other
BatchDeletePartialWitness ==
    /\ batchRet.n = 2
    /\ batchRet.errors = 1
    /\ batchRet.removed = 1
    /\ deleted = 1
    /\ depth = -1

----------------------------------------------------------------------------
\* Properties of the gauges

IdSet(idList) == {idList[i] : i \in 1 .. Len(idList)}
MaxOf(S) == CHOOSE x \in S : \A y \in S : y <= x
MinOf(S) == CHOOSE x \in S : \A y \in S : x <= y

\* C12: once set, the approximate-depth gauge is sampleCount / (maxId - minId)
\* scaled by the width of the id space when the sample has two ids or more,
\* and sampleCount * partitionCount * memberCount otherwise.
DepthEstimate ==
    gauge.depthApr # Unset =>
        LET n == Len(sample.ids)
            S == IdSet(sample.ids)
        IN gauge.depthApr[1] = IF n >= 2 THEN (n * IntMax) \div (MaxOf(S) - MinOf(S))
                               ELSE n * sample.parts * sample.members

\* C13: once set, the fill gauge is floor(100 * messageCount / batchSize), an
\* integer of 0 .. 100.
FillRatio ==
    gauge.fill # Unset =>
        /\ gauge.fill[1] = (100 * fillInput.messageCount) \div fillInput.batchSize
        /\ gauge.fill[1] \in 0 .. 100

----------------------------------------------------------------------------
\* Properties of the seed order

RECURSIVE Keep(_, _)
Keep(list, S) ==
    IF list = <<>> THEN <<>>
    ELSE IF Head(list) \in S THEN <<Head(list)>> \o Keep(Tail(list), S)
    ELSE Keep(Tail(list), S)

\* C14: for a seed list of two or more addresses, the returned order is the
\* sorted seed list without this node's own address: the addresses sorting
\* after this node in sorted order, then the addresses sorting before it,
\* also when this node's address is not in the list.
SeedOrdering ==
    (prioritizedServers # Unset /\ Len(seedServers) >= 2) =>
        LET after == {x \in Addrs : Rank(x) > Rank(myName)}
            before == {x \in Addrs : Rank(x) < Rank(myName)}
        IN /\ ~prioritizedServers[1].fatal
           /\ prioritizedServers[1].servers =
                  Keep(SortStrings(seedServers), after) \o Keep(SortStrings(seedServers), before)

----------------------------------------------------------------------------
\* Properties of the topic operations (checked under SpecTopics)

\* C15: a Broadcast returns a map whose keys are the topic's linked set,
\* after exactly one Put on every linked queue, each of them in the local
\* queue map by then; the id of a queue is empty exactly when its Put
\* failed to store the message.
BroadcastFanOut ==
    fanout.called =>
        /\ queueWrites # Unset
        /\ DOMAIN queueWrites[1] = fanout.linked
        /\ fanout.puts = [q \in fanout.linked |-> 1]
        /\ fanout.linked \subseteq DOMAIN QueueMap
        /\ \A q \in fanout.linked : queueWrites[1][q] = NoId <=> q \notin fanout.stored

\* C16: a DeleteQueue of a name that is not linked returns without error
\* and leaves the stored and the local linked set as they were, and after a
\* DeleteQueue that met no failure the name is not linked, so that a second
\* call changes nothing.
TopicDeleteIdempotent ==
    [][\A t \in TopicNames, name \in QueueNames :
           TopicDeleteQueue(t, name, "ok") =>
               /\ ~crashed'
               /\ name \notin sLinks'[t]
               /\ TopicMap'[t].Config.queues = sLinks'[t]
               /\ name \notin sLinks[t] => sLinks' = sLinks]_vars

----------------------------------------------------------------------------
\* Properties of the reconciliation loops under failures (checked under
\* SpecSync)

\* C17: a sync cycle of either registry whose fetch of the shared
\* configuration fails does not crash, leaves the local entity maps and the
\* settings snapshots as they were, and leaves the loop where the next
\* cycle starts.
SyncFetchFailure ==
    [][/\ QueuesFetch("fetchErr") =>
              ~crashed' /\ qpc' = "idle" /\ UNCHANGED <<QueueMap, queuesConfig>>
       /\ TopicsFetch("fetchErr") =>
              ~crashed' /\ tpc' = "idle" /\ UNCHANGED <<TopicMap, topicSlice>>]_vars

\* C18: no cycle of a sync loop starts once the loop has received the stop,
\* the ticker is stopped by then, the stop is received between two cycles,
\* and after a stop is sent both loops have eventually exited (or the
\* process has gone down).
SyncCancellable ==
    /\ [][/\ (\E o \in {"ok", "fetchErr"} : QueuesFetch(o)) => syncKiller # "received"
          /\ (syncKiller # "received" /\ syncKiller' = "received") =>
                 qpc = "idle" /\ syncScheduler' = "stopped"]_vars
    /\ (syncKiller # "open") ~> (crashed \/ (qpc = "exited" /\ tpc = "exited"))

----------------------------------------------------------------------------
\* Properties of the Config accesses (checked under SpecLocks)

Holds(g, op) ==
    \/ rwLock[op.on].writer = g
    \/ op.kind = "read" /\ g \in rwLock[op.on].readers

\* C19: a goroutine about to read or write a Config field holds the lock of
\* that entity (the exclusive lock for a write), and no two goroutines are
\* about to access the same Config with one of them writing.
ConfigRaceFree ==
    /\ \A g \in Goroutines :
           NextOp(g).kind \in {"read", "write"} => Holds(g, NextOp(g))
    /\ \A g, h \in Goroutines :
           (/\ g # h
            /\ NextOp(g).kind = "write"
            /\ NextOp(h).kind \in {"read", "write"}) => NextOp(g).on # NextOp(h).on

----------------------------------------------------------------------------
\* Properties of a lease request that finds no partition (checked under
\* SpecWait)

\* C20: a lease request made while every partition is checked out, a resize
\* under way or not, ends: it is not pending forever, and when it ends with
\* the pool still empty the Get returns the error and no messages, without
\* a partition and without touching the pool.
LeaseWaitBounded ==
    /\ [][\A c \in Callers :
             (pc[c] = "lease" /\ pool = EmptyBag /\ pc'[c] # "lease") =>
                 /\ pc'[c] = "done"
                 /\ ret'[c].err
                 /\ ret'[c].msgs = <<>>
                 /\ hold'[c] = NoPart
                 /\ pool' = pool]_vars
    /\ \A c \in Callers : (pc[c] = "lease") ~> (pc[c] # "lease" \/ crashed)

\* c1's lease request failed while c2 held the last partition during a
\* resize.
LeaseWaitBoundedWitness ==
    /\ pc["c1"] = "done"
    /\ ret["c1"] = GetErr
    /\ hold["c2"] # NoPart
    /\ pool = EmptyBag
    /\ resizing

----------------------------------------------------------------------------
\* Properties of the resync of the surviving entities (checked under
\* SpecSync)

\* C21: at the end of a reconciliation cycle in which no fetch has failed,
\* every queue left in QueueMap holds the settings the shared store holds
\* for it, with its partitions resynced to them, and every topic left in
\* TopicMap holds the linked-queue set the shared store holds for it.
SurvivorsResynced ==
    [][/\ (faults' = 0 /\ QueuesResync({})) =>
              \A q \in DOMAIN QueueMap' :
                  /\ QueueMap'[q].Config = FetchQueueMap(q, TRUE)
                  /\ QueueMap'[q].Parts = sSettings[q]
       /\ (faults' = 0 /\ TopicsSweep) =>
              \A t \in DOMAIN TopicMap' :
                  /\ TopicMap'[t].Config = FetchTopicMap(sLinks, t, TRUE)
                  /\ Links(TopicMap'[t]) = sLinks[t]]_vars

----------------------------------------------------------------------------
\* A queue whose partition set is built by InitPartitions before its consumers
\* call Get (the partition test: InitPartitions, PartitionCount, GetPartition).

\* PartitionCount(): the number of partitions of the set.
PartitionCount == partCount

\* InitPartitions(cfg, queueName): the set is sized to the configured minimum
\* and its range table is built; consumers may call Get from then on.
PartitionsInit ==
    /\ ~crashed
    /\ partCount = 0
    /\ partCount' = minP
    /\ pool' = InitPool(minP)
    /\ ranges' = Rebuild(EmptyTable, minP)
    /\ target' = minP
    /\ pc' = [c \in Callers |-> "idle"]
    /\ UNCHANGED <<store, compress, minP, maxP, resizing, hold, ids, pending, chan, cnt,
                   vals, qerr, ret, rel, leased, repairs, statVars, faults, crashed,
                   script, regVars, auxVars>>

PartsInit ==
    /\ store \in InitialStores
    /\ compress \in BOOLEAN
    /\ minP \in 1 .. MaxPartitions
    /\ maxP \in minP .. MaxPartitions
    /\ partCount = 0
    /\ pool = EmptyBag
    /\ ranges = EmptyTable
    /\ resizing = FALSE
    /\ target = 0
    /\ pc = [c \in Callers |-> "new"]
    /\ hold = [c \in Callers |-> NoPart]
    /\ ids = [c \in Callers |-> <<>>]
    /\ pending = [c \in Callers |-> {}]
    /\ chan = [c \in Callers |-> <<>>]
    /\ cnt = [c \in Callers |-> 0]
    /\ vals = [c \in Callers |-> <<>>]
    /\ qerr = [c \in Callers |-> FALSE]
    /\ ret = [c \in Callers |-> NoRet]
    /\ rel = [c \in Callers |-> <<>>]
    /\ leased = [c \in Callers |-> NoPart]
    /\ repairs = [c \in Callers |-> <<>>]
    /\ sent = 0
    /\ depth = 0
    /\ deleted = 0
    /\ faults = 0
    /\ crashed = FALSE
    /\ script = NoScript
    /\ batchRet = NoBatchRet
    /\ NoRegistry
    /\ NoGauges
    /\ NoRest

PartsNext ==
    \/ PartitionsInit
    \/ \E c \in Callers, o \in {"ok", "bucketErr"} : GetBegin(c, o)
    \/ \E c \in Callers, n \in 1 .. MaxBatch, o \in {"ok", "queryErr"} : GetQuery(c, n, o)
    \/ \E c \in Callers, i \in 1 .. MaxBatch, o \in {"ok", "fetchErr"} : GetFetch(c, i, o)
    \/ \E c \in Callers : GetCollect(c)
    \/ \E c \in Callers : GetReturn(c)
    \/ \E c \in Callers : GetReset(c)

SpecParts == PartsInit /\ [][PartsNext]_vars

\* The set is as InitPartitions left it: nothing has been checked out of it.
FreshPartitions == partCount > 0 /\ BagCardinality(pool) = partCount /\ ~LeaseFails

\* C22: immediately after InitPartitions the partition count is the
\* configured minimum and as many partitions are in the set; the first
\* GetPartition on the fresh set (the bucket being opened) returns no error
\* and hands out a partition with a bottom and a top id.
InitialPartitionCount ==
    [][/\ PartitionsInit =>
              /\ PartitionCount' = minP
              /\ BagCardinality(pool') = minP
              /\ PoolIds(pool') = 0 .. (minP - 1)
       /\ \A c \in Callers :
              (FreshPartitions /\ GetBegin(c, "ok")) =>
                  /\ pc'[c] = "query"
                  /\ ~ret'[c].err
                  /\ hold'[c].id \in 0 .. (minP - 1)
                  /\ hold'[c].lo \in Keys /\ hold'[c].hi \in Keys
                  /\ hold'[c].lo <= hold'[c].hi]_vars

\* A first GetPartition has handed out a partition of the fresh set.
InitialPartitionCountWitness ==
    \E c \in Callers :
        /\ pc[c] = "query"
        /\ hold[c] # NoPart
        /\ PartitionCount = minP
        /\ BagCardinality(pool) = minP - 1
        /\ \A d \in Callers \ {c} : pc[d] = "idle" /\ leased[d] = NoPart

----------------------------------------------------------------------------
\* C23: read-repair loses no data.  The conflicted key of a repaired object
\* is deleted only when the re-Put of every sibling with data has written its
\* object: a repair that deleted the key stored as many objects as the
\* object had siblings with data.
RepairLosesNoData ==
    \A c \in Callers :
        \A i \in 1 .. Len(repairs[c]) :
            repairs[c][i].gone => repairs[c][i].nstored = repairs[c][i].n

----------------------------------------------------------------------------
\* One RetrieveMessages call on any id list, its goroutines in every
\* interleaving; the scheduler lets every goroutine that can run, run.
FanInit ==
    /\ EngineInit
    /\ NoRegistry
    /\ NoGauges
    /\ NoSeeds
    /\ NoBroadcast
    /\ NoStop
    /\ NoLocks
    /\ compress = FALSE
    /\ maxP = 1
    /\ script = NoScript
    /\ fanIds \in FanIdLists
    /\ fanLoop = [i |-> 0, at |-> "go"]
    /\ rKeys = <<>>
    /\ rObjectArrayChan = <<>>
    /\ fetchTask = [t \in FetchTasks |-> [st |-> "none", key |-> NoId]]
    /\ received = <<>>

FanNext ==
    \/ FanSpawn
    \/ FanPushKey
    \/ \E t \in FetchTasks : TaskPop(t)
    \/ \E t \in FetchTasks, o \in {"ok", "fetchErr"} : TaskFetch(t, o)
    \/ FanCollect
    \/ FanReturn

FanFairness ==
    /\ WF_vars(FanSpawn)
    /\ WF_vars(FanPushKey)
    /\ \A t \in FetchTasks : WF_vars(TaskPop(t))
    /\ \A t \in FetchTasks : WF_vars(\E o \in {"ok", "fetchErr"} : TaskFetch(t, o))
    /\ WF_vars(FanCollect)
    /\ WF_vars(FanReturn)

SpecFan == FanInit /\ [][FanNext]_vars /\ FanFairness

Started == {t \in FetchTasks : fetchTask[t].st # "none"}

SeqRange(q) == {q[j] : j \in 1 .. Len(q)}

\* One goroutine per iteration; the ids that left rKeys are with one
\* goroutine each; every id of the list is still to be pushed, in rKeys or
\* with a goroutine; and of the len(ids) results, every one is received,
\* in rObjectArrayChan, or still to come from a goroutine that runs or is
\* yet to start.
FanAccounting ==
    /\ Started = 1 .. (fanLoop.i + (IF fanLoop.at = "push" THEN 1 ELSE 0))
    /\ \A t \in FetchTasks, u \in FetchTasks :
          (t # u /\ fetchTask[t].key # NoId) => fetchTask[t].key # fetchTask[u].key
    /\ {fanIds[j] : j \in (fanLoop.i + 1) .. Len(fanIds)} \cup SeqRange(rKeys)
          \cup ({fetchTask[t].key : t \in FetchTasks} \ {NoId}) = SeqRange(fanIds)
    /\ Len(received) + Len(rObjectArrayChan)
          + Cardinality({t \in FetchTasks : fetchTask[t].st \in {"waiting", "got"}})
          + (Len(fanIds) - Cardinality(Started)) = Len(fanIds)

FanReturned == fanLoop.at = "returned"

\* The collector has returned: it received one object per id of the list,
\* every goroutine is through and both channels are empty.
FanComplete ==
    FanReturned =>
        /\ Len(received) = Len(fanIds)
        /\ {r.key : r \in SeqRange(received)} = SeqRange(fanIds)
        /\ \A t \in 1 .. Len(fanIds) : fetchTask[t].st = "done"
        /\ rKeys = <<>> /\ rObjectArrayChan = <<>>

\* C24: fan-out/fan-in of RetrieveMessages.  For every id list one fetch
\* goroutine is started per id; in every interleaving each id of the list is
\* fetched by exactly one goroutine; no goroutine waits forever on rKeys or
\* on rObjectArrayChan; the collector receives exactly len(ids) objects and
\* then returns.
FanOutFanIn ==
    /\ [](FanAccounting /\ FanComplete)
    /\ \A t \in FetchTasks : (fetchTask[t].st # "none") ~> (fetchTask[t].st = "done")
    /\ <>FanReturned

----------------------------------------------------------------------------
\* The goroutines that touch QueueMap, in every interleaving.
MapInit ==
    /\ EngineInit
    /\ NoRegistry
    /\ NoGauges
    /\ NoSeeds
    /\ NoBroadcast
    /\ NoStop
    /\ NoFan
    /\ store = [k \in Keys |-> <<>>]
    /\ compress = FALSE
    /\ maxP = 1
    /\ script = NoScript
    /\ goPos = [g \in MapGoroutines |-> 1]
    /\ rwLock = [e \in Entities |-> Unlocked]

MapNext ==
    \/ \E g \in MapGoroutines : Call(g)
    \/ \E g \in MapGoroutines : Lock(g)
    \/ \E g \in MapGoroutines : Unlock(g)
    \/ \E g \in MapGoroutines : RLock(g)
    \/ \E g \in MapGoroutines : RUnlock(g)
    \/ \E g \in MapGoroutines : ReadConfig(g)
    \/ \E g \in MapGoroutines : WriteConfig(g)
    \/ \E g \in MapGoroutines : ReadMap(g)
    \/ \E g \in MapGoroutines : WriteMap(g)

SpecMap == MapInit /\ [][MapNext]_vars

\* The lock of the registry that owns the map (Queues embeds sync.RWMutex).
HoldsMapLock(g, kind) ==
    \/ rwLock["queues"].writer = g
    \/ kind = "mapRead" /\ g \in rwLock["queues"].readers

\* C25: additions to and deletions from QueueMap are serialized: a goroutine
\* about to insert into the map or delete from it holds the registry's lock
\* exclusively, one about to look a name up holds it at least shared, and no
\* two goroutines are about to access the map with one of them writing.
RegistryMapSerialized ==
    /\ \A g \in MapGoroutines :
           NextOp(g).kind \in {"mapRead", "mapWrite"} => HoldsMapLock(g, NextOp(g).kind)
    /\ \A g, h \in MapGoroutines :
           (g # h /\ NextOp(g).kind = "mapWrite") =>
               NextOp(h).kind \notin {"mapRead", "mapWrite"}

====
